---- MODULE Spec2Model ----
(***************************************************************************)
(* A model of shafir360/pdf-api: the PDF field extractor                    *)
(* (src/app/core/converter.py) and the CV renderer                          *)
(* (src/app/core/cv_maker.py).                                              *)
(*                                                                         *)
(* A Python str is modelled as a sequence of one-character strings, so the *)
(* regular expressions of the extractor are computed character by          *)
(* character.  The empty str "" and the empty list [] are both <<>>.        *)
(***************************************************************************)
EXTENDS Integers, Sequences, FiniteSets, TLC

VARIABLES
  pc,      \* "idle": no call in progress; "done": a call has returned
  op,      \* the function that was called
  text,    \* the text argument of the extractor functions
  label,   \* the label argument of _find_value
  form,    \* a description of how the input text was laid out
  ret,     \* the value the call returned
  span,    \* the argument of _fmt_date
  payload,   \* the payload argument of cv_json_to_docx
  template,  \* its template argument: {} for None, {t} for template=t
  drawn,     \* the bundle _rand_style() returned to the call
  rand,      \* the other random draws of the call
  sty,       \* the style bundle of the call, after the template override
  doc,       \* the document the call composed
  globals_add_heading, \* the module global _add_heading: the number of
                       \* add_shaded closures around the function of line 61
  request,   \* the JSON body of a POST /generate-cv
  threads    \* the frames of the cv_json_to_docx calls of concurrent threads

exVars == <<text, label, form, ret>>

cvVars == <<span, payload, template, drawn, rand, sty, doc>>

apiVars == <<request, threads>>

---------------------------------------------------------------------------
(* Bounds of the model.                                                    *)

\* at most this many lines in a text handed to _find_value
MaxLines == 3

\* at most this many data lines in an employment table
MaxData == 12

\* at most this many skills in a list
MaxSkills == 4

\* at most this many add_shaded closures around _add_heading
MaxShade == 1

\* the template overrides reach this far below 0 and above 4
MaxOverride == 3

---------------------------------------------------------------------------
(* Characters and strings.                                                 *)

Letters == <<"a", "b", "c", "d", "e", "f", "g", "h", "i", "j", "k", "l", "m",
             "n", "o", "p", "q", "r", "s", "t", "u", "v", "w", "x", "y", "z">>

Capitals == <<"A", "B", "C", "D", "E", "F", "G", "H", "I", "J", "K", "L", "M",
              "N", "O", "P", "Q", "R", "S", "T", "U", "V", "W", "X", "Y", "Z">>

CapitalSet == {Capitals[i] : i \in 1..26}

LowerOf == [c \in CapitalSet |-> Letters[CHOOSE i \in 1..26 : Capitals[i] = c]]

\* re.I on ASCII text: two characters match when their lower cases agree
Lower(c) == IF c \in CapitalSet THEN LowerOf[c] ELSE c

LowerStr(s) == [i \in 1..Len(s) |-> Lower(s[i])]

\* \s of the re module, for the characters a TLA+ string can hold
Whitespace == {" ", "\t", "\n", "\r", "\f"}

\* [^\S\r\n]: whitespace that does not end a line
HSpace == Whitespace \ {"\r", "\n"}

\* the characters at which str.splitlines() breaks a line
LineBreaks == {"\n", "\r", "\f"}

EmptyStr == <<>>

RECURSIVE SkipWhile(_, _, _)
\* the first position >= i of s whose character is not in class (Len(s)+1 if none)
SkipWhile(s, i, class) ==
  IF i <= Len(s) /\ s[i] \in class THEN SkipWhile(s, i + 1, class) ELSE i

RECURSIVE SkipTo(_, _, _)
\* the first position >= i of s whose character is in class (Len(s)+1 if none)
SkipTo(s, i, class) ==
  IF i <= Len(s) /\ s[i] \notin class THEN SkipTo(s, i + 1, class) ELSE i

RECURSIVE SkipBack(_, _, _)
\* the last position <= i of s whose character is not in class (0 if none)
SkipBack(s, i, class) ==
  IF i >= 1 /\ s[i] \in class THEN SkipBack(s, i - 1, class) ELSE i

\* str.strip()
Strip(s) ==
  LET a == SkipWhile(s, 1, Whitespace)
      b == SkipBack(s, Len(s), Whitespace)
  IN  IF a > b THEN EmptyStr ELSE SubSeq(s, a, b)

\* the position of the last character of the line that holds position i
LineEnd(s, i) == SkipTo(s, i, {"\n"}) - 1

\* pat occurs in s at position i, letter case respected
OccursAt(s, pat, i) ==
  /\ i + Len(pat) - 1 <= Len(s)
  /\ \A k \in 1..Len(pat) : s[i + k - 1] = pat[k]

\* the least element of a non-empty set of numbers
SetMin(S) == CHOOSE i \in S : \A j \in S : i <= j

\* str.find: the first position at which pat occurs in s, 0 if none
Find(s, pat) ==
  LET hits == {i \in 1..(Len(s) - Len(pat) + 1) : OccursAt(s, pat, i)}
  IN  IF hits = {} THEN 0 ELSE SetMin(hits)

RECURSIVE SplitLines(_)
\* str.splitlines(); "\r\n" gives one more empty line here than in Python, and
\* every caller drops empty lines
SplitLines(s) ==
  IF s = <<>> THEN <<>>
  ELSE LET e == SkipTo(s, 1, LineBreaks)
       IN  <<SubSeq(s, 1, e - 1)>> \o SplitLines(SubSeq(s, e + 1, Len(s)))

RECURSIVE JoinWith(_, _)
\* sep.join(lines)
JoinWith(lines, sep) ==
  IF lines = <<>> THEN <<>>
  ELSE IF Len(lines) = 1 THEN lines[1]
  ELSE lines[1] \o sep \o JoinWith(Tail(lines), sep)

---------------------------------------------------------------------------
(* converter.py: _find_value                                               *)

\* re.search found nothing
NoMatch == [ok |-> FALSE, group |-> <<>>]

\* re.escape(label) under re.I matches at position i of s
LabelAt(s, lbl, i) ==
  /\ i + Len(lbl) - 1 <= Len(s)
  /\ \A k \in 1..Len(lbl) : Lower(s[i + k - 1]) = Lower(lbl[k])

\* (.+) : the rest of the line from position i, at least one character
RestOfLine(s, i) ==
  IF i > Len(s) \/ s[i] = "\n" THEN NoMatch
  ELSE [ok |-> TRUE, group |-> SubSeq(s, i, LineEnd(s, i))]

\* pat_inline = label[^\S\r\n]*\.?\s*:\s*(.+) tried at position i.
\* The greedy \s* after the colon gives characters back only when it ran to
\* the end of the text: (.+) then takes the last character that is not "\n".
MatchInlineAt(s, lbl, i) ==
  IF ~LabelAt(s, lbl, i) THEN NoMatch
  ELSE LET a == SkipWhile(s, i + Len(lbl), HSpace)
           b == IF a <= Len(s) /\ s[a] = "." THEN a + 1 ELSE a
           c == SkipWhile(s, b, Whitespace)
       IN  IF c > Len(s) \/ s[c] # ":" THEN NoMatch
           ELSE LET d == SkipWhile(s, c + 1, Whitespace)
                    e == IF d <= Len(s) THEN d ELSE SkipBack(s, Len(s), {"\n"})
                IN  IF e <= c THEN NoMatch ELSE RestOfLine(s, e)

\* pat_next = label[^\S\r\n]*\n(.+) tried at position i
MatchNextAt(s, lbl, i) ==
  IF ~LabelAt(s, lbl, i) THEN NoMatch
  ELSE LET a == SkipWhile(s, i + Len(lbl), HSpace)
       IN  IF a > Len(s) \/ s[a] # "\n" THEN NoMatch ELSE RestOfLine(s, a + 1)

\* Occurrences that finds a label only at the start of a line
Occurrences_linestart(s, lbl) ==
  {i \in 1..(Len(s) - Len(lbl) + 1) : LabelAt(s, lbl, i) /\ (i = 1 \/ s[i - 1] = "\n")}

\* the positions of s at which the label matches
Occurrences(s, lbl) == {i \in 1..(Len(s) - Len(lbl) + 1) : LabelAt(s, lbl, i)}

\* re.search(pat_inline, text, flags=re.I): the leftmost match
SearchInline(s, lbl) ==
  LET hits == {i \in Occurrences(s, lbl) : MatchInlineAt(s, lbl, i).ok}
  IN  IF hits = {} THEN NoMatch ELSE MatchInlineAt(s, lbl, SetMin(hits))

\* SearchNext taking the last match of the text instead of the first
SearchNext_last(s, lbl) ==
  LET hits == {i \in Occurrences(s, lbl) : MatchNextAt(s, lbl, i).ok}
  IN  IF hits = {} THEN NoMatch
      ELSE MatchNextAt(s, lbl, CHOOSE i \in hits : \A j \in hits : j <= i)

\* re.search(pat_next, text, flags=re.I): the leftmost match
SearchNext(s, lbl) ==
  LET hits == {i \in Occurrences(s, lbl) : MatchNextAt(s, lbl, i).ok}
  IN  IF hits = {} THEN NoMatch ELSE MatchNextAt(s, lbl, SetMin(hits))

\* _find_value returning m.group(1) without .strip()
_find_value_nostrip(txt, lbl, default) ==
  LET inline == SearchInline(txt, lbl)
  IN  IF inline.ok THEN inline.group
      ELSE LET next == SearchNext(txt, lbl)
           IN  IF next.ok THEN next.group ELSE default

_find_value(txt, lbl, default) ==
  LET inline == SearchInline(txt, lbl)
  IN  IF inline.ok THEN Strip(inline.group)
      ELSE LET next == SearchNext(txt, lbl)
           IN  IF next.ok THEN Strip(next.group) ELSE default

---------------------------------------------------------------------------
(* converter.py: _extract_employment                                       *)

EMPLOYER == <<"E", "m", "p", "l", "o", "y", "e", "r">>

EMPLOYMENT_LIST == <<"E", "m", "p", "l", "o", "y", "m", "e", "n", "t", " ", "L", "i", "s", "t">>

CONTACT_NAME == <<"C", "o", "n", "t", "a", "c", "t", " ", "N", "a", "m", "e">>

NO_RECORDS_FOUND == <<"N", "o", " ", "R", "e", "c", "o", "r", "d", "s", " ", "F", "o", "u", "n", "d">>

\* text.split(marker, 1)[1]
AfterFirst(s, marker) == SubSeq(s, Find(s, marker) + Len(marker), Len(s))

\* text.split(marker, 1)[0]
BeforeFirst(s, marker) == SubSeq(s, 1, Find(s, marker) - 1)

RECURSIVE StripNonEmpty(_)
\* [ln.strip() for ln in lines if ln.strip()]
StripNonEmpty(lines) ==
  IF lines = <<>> THEN <<>>
  ELSE (IF Strip(Head(lines)) = <<>> THEN <<>> ELSE <<Strip(Head(lines))>>)
       \o StripNonEmpty(Tail(lines))

RECURSIVE IndexFrom(_, _, _)
\* list.index: the first position >= i of x in lines, 0 for ValueError
IndexFrom(lines, x, i) ==
  IF i > Len(lines) THEN 0
  ELSE IF lines[i] = x THEN i
  ELSE IndexFrom(lines, x, i + 1)

\* IsNoRecords without flags=re.I
IsNoRecords_cased(line) == line = NO_RECORDS_FOUND

\* re.fullmatch(r"No Records Found", line, flags=re.I)
IsNoRecords(line) == LowerStr(line) = LowerStr(NO_RECORDS_FOUND)

Job(chunk) ==
  [employer        |-> chunk[1],
   job_description |-> chunk[2],
   start_date      |-> chunk[3],
   end_date        |-> chunk[4],
   contact_name    |-> chunk[5]]

RECURSIVE Jobs_partial(_, _)
\* Jobs keeping a trailing chunk of fewer than 5 lines, its missing fields ""
Jobs_partial(data_lines, i) ==
  IF i >= Len(data_lines) THEN <<>>
  ELSE LET hi    == IF i + 5 <= Len(data_lines) THEN i + 5 ELSE Len(data_lines)
           chunk == SubSeq(data_lines, i + 1, hi)
       IN  <<Job(chunk \o [k \in 1..(5 - Len(chunk)) |-> EmptyStr])>>
           \o Jobs_partial(data_lines, i + 5)

RECURSIVE Jobs(_, _)
\* the loop over range(0, len(data_lines), 5), from offset i on
Jobs(data_lines, i) ==
  IF i >= Len(data_lines) THEN <<>>
  ELSE LET hi    == IF i + 5 <= Len(data_lines) THEN i + 5 ELSE Len(data_lines)
           chunk == SubSeq(data_lines, i + 1, hi)
       IN  (IF Len(chunk) = 5 THEN <<Job(chunk)>> ELSE <<>>)
           \o Jobs(data_lines, i + 5)

\* DataLines with no fallback: nothing when there is no "Contact Name" line
DataLines_nofallback(lines) ==
  LET header_end == IndexFrom(lines, CONTACT_NAME, 1)
  IN  IF header_end = 0 THEN <<>> ELSE SubSeq(lines, header_end + 1, Len(lines))

\* the data lines of a block: what follows the first "Contact Name" line, or
\* every line when there is none
DataLines(lines) ==
  LET header_end == IndexFrom(lines, CONTACT_NAME, 1)
  IN  IF header_end = 0 THEN lines ELSE SubSeq(lines, header_end + 1, Len(lines))

_extract_employment(txt) ==
  IF Find(txt, EMPLOYER) = 0 THEN <<>>
  ELSE LET after      == AfterFirst(txt, EMPLOYER)
           block      == IF Find(after, EMPLOYMENT_LIST) # 0
                         THEN BeforeFirst(after, EMPLOYMENT_LIST) ELSE after
           lines      == StripNonEmpty(SplitLines(block))
           data_lines == DataLines(lines)
       IN  IF data_lines # <<>> /\ IsNoRecords(data_lines[1]) THEN <<>>
           ELSE Jobs(data_lines, 0)

---------------------------------------------------------------------------
(* converter.py: _extract_info                                             *)

\* the label each field is looked up by
LABELS ==
  [ application_ref |-> <<"A", "p", "p", "l", "i", "c", "a", "t", "i", "o", "n", " ", "R", "e", "f">>,
    title |-> <<"T", "i", "t", "l", "e">>,
    first_name |-> <<"F", "i", "r", "s", "t", " ", "N", "a", "m", "e">>,
    middle_name |-> <<"M", "i", "d", "d", "l", "e", " ", "N", "a", "m", "e">>,
    last_name |-> <<"L", "a", "s", "t", " ", "N", "a", "m", "e">>,
    dob |-> <<"D", "a", "t", "e", " ", "o", "f", " ", "B", "i", "r", "t", "h">>,
    email |-> <<"E", "m", "a", "i", "l", " ", "A", "d", "d", "r", "e", "s", "s">>,
    mobile |-> <<"M", "o", "b", "i", "l", "e">>,
    nationality |-> <<"N", "a", "t", "i", "o", "n", "a", "l", "i", "t", "y">>,
    program |-> <<"P", "r", "o", "g", "r", "a", "m">>,
    intake |-> <<"I", "n", "t", "a", "k", "e">>,
    campus |-> <<"C", "a", "m", "p", "u", "s">>,
    term_postcode |-> <<"T", "e", "r", "m", " ", "t", "i", "m", "e", " ", "P", "o", "s", "t", "c", "o", "d", "e">>,
    address_line_1 |-> <<"A", "d", "d", "r", "e", "s", "s", " ", "L", "i", "n", "e", " ", "1">>,
    city |-> <<"C", "i", "t", "y">>,
    postcode |-> <<"P", "o", "s", "t", "c", "o", "d", "e">>,
    country |-> <<"C", "o", "u", "n", "t", "r", "y">>,
    fee_payer |-> <<"W", "h", "o", " ", "w", "i", "l", "l", " ", "p", "a", "y", " ", "y", "o", "u", "r", " ", "f", "e", "e", "s", "?">>,
    previous_loan |-> <<"H", "a", "v", "e", " ", "y", "o", "u", " ", "p", "r", "e", "v", "i", "o", "u", "s", "l", "y", " ", "r", "e", "c", "e", "i", "v", "e", "d", " ", "a", " ", "s", "t", "u", "d", "e", "n", "t", " ", "l", "o", "a", "n", "?">>,
    reference_name |-> <<"R", "e", "f", "e", "r", "e", "n", "c", "e", " ", "1", " ", "N", "a", "m", "e">>,
    reference_email |-> <<"R", "e", "f", "e", "r", "e", "n", "c", "e", " ", "1", " ", "E", "m", "a", "i", "l", "/", "M", "o", "b", "i", "l", "e">> ]

\* the keys of the record and of its permanent_address
AddressKeys == {"address_line_1", "city", "postcode", "country"}

ScalarKeys == DOMAIN LABELS \ AddressKeys

InfoKeys == ScalarKeys \cup {"permanent_address", "employment"}

\* _extract_info leaving out the fields it found no value for
_extract_info_sparse(txt) ==
  LET found == {k \in ScalarKeys : _find_value(txt, LABELS[k], EmptyStr) # EmptyStr}
  IN  [k \in found \cup {"permanent_address", "employment"} |->
         IF k = "employment" THEN _extract_employment(txt)
         ELSE IF k = "permanent_address"
              THEN [a \in AddressKeys |-> _find_value(txt, LABELS[a], EmptyStr)]
              ELSE _find_value(txt, LABELS[k], EmptyStr)]

_extract_info(txt) ==
  [application_ref |-> _find_value(txt, LABELS.application_ref, EmptyStr),
   title           |-> _find_value(txt, LABELS.title, EmptyStr),
   first_name      |-> _find_value(txt, LABELS.first_name, EmptyStr),
   middle_name     |-> _find_value(txt, LABELS.middle_name, EmptyStr),
   last_name       |-> _find_value(txt, LABELS.last_name, EmptyStr),
   dob             |-> _find_value(txt, LABELS.dob, EmptyStr),
   email           |-> _find_value(txt, LABELS.email, EmptyStr),
   mobile          |-> _find_value(txt, LABELS.mobile, EmptyStr),
   nationality     |-> _find_value(txt, LABELS.nationality, EmptyStr),
   program         |-> _find_value(txt, LABELS.program, EmptyStr),
   intake          |-> _find_value(txt, LABELS.intake, EmptyStr),
   campus          |-> _find_value(txt, LABELS.campus, EmptyStr),
   term_postcode   |-> _find_value(txt, LABELS.term_postcode, EmptyStr),
   permanent_address |->
     [address_line_1 |-> _find_value(txt, LABELS.address_line_1, EmptyStr),
      city           |-> _find_value(txt, LABELS.city, EmptyStr),
      postcode       |-> _find_value(txt, LABELS.postcode, EmptyStr),
      country        |-> _find_value(txt, LABELS.country, EmptyStr)],
   fee_payer       |-> _find_value(txt, LABELS.fee_payer, EmptyStr),
   previous_loan   |-> _find_value(txt, LABELS.previous_loan, EmptyStr),
   reference_name  |-> _find_value(txt, LABELS.reference_name, EmptyStr),
   reference_email |-> _find_value(txt, LABELS.reference_email, EmptyStr),
   employment      |-> _extract_employment(txt)]

---------------------------------------------------------------------------
(* The texts the extractor is called with.                                 *)

RECURSIVE SeqsUpTo(_, _)
\* the sequences of at most n elements of S
SeqsUpTo(S, n) ==
  IF n = 0 THEN {<<>>}
  ELSE LET shorter == SeqsUpTo(S, n - 1)
       IN  shorter \cup {Append(q, x) : q \in {r \in shorter : Len(r) = n - 1}, x \in S}

NL == <<"\n">>

\* the lines a text handed to _find_value is made of
FieldLines ==
  { <<"T", "i", "t", "l", "e", ":", " ", "M", "r">>,
    <<"T", "I", "T", "L", "E", ":", " ", "M", "s", " ">>,
    <<"T", "i", "t", "l", "e">>,
    <<"T", "i", "t", "l", "e", " ", ":">>,
    <<>>,
    <<" ", "D", "r", " ">>,
    <<":", " ", "S", "i", "r">>,
    <<"T", "e", "r", "m", " ", "t", "i", "m", "e", " ", "P", "o", "s", "t", "c", "o", "d", "e", ":", " ", "X", "1">>,
    <<"P", "o", "s", "t", "c", "o", "d", "e", ":", " ", "Y", "2">>,
    <<"J", "o", "b", " ", "T", "i", "t", "l", "e", ".", " ">>,
    <<" ", " ">> }

\* texts in which a line of another label that ends in 'postcode' comes
\* before the term-time line
ShadowTexts ==
  { <<<<"H", "o", "m", "e", " ", "p", "o", "s", "t", "c", "o", "d", "e", ":", " ", "Z", "9">>, LABELS.term_postcode \o <<":", " ", "X", "1">>>>,
    <<<<"H", "o", "m", "e", " ", "p", "o", "s", "t", "c", "o", "d", "e", ":", " ", "Z", "9">>, LABELS.term_postcode \o <<":", " ", "X", "1">>, <<"P", "o", "s", "t", "c", "o", "d", "e", ":", " ", "Y", "2">>>>,
    <<<<"T", "i", "t", "l", "e", ":", " ", "M", "r">>, <<"H", "o", "m", "e", " ", "P", "o", "s", "t", "c", "o", "d", "e">>, LABELS.term_postcode \o <<":", " ", "X", "1">>>> }

\* the labels _find_value is probed with
ProbeLabels == {LABELS.title, LABELS.postcode}

LowerEmployer == <<"e", "m", "p", "l", "o", "y", "e", "r">>

UpperNoRecords == <<"N", "O", " ", "R", "E", "C", "O", "R", "D", "S", " ", "F", "O", "U", "N", "D">>

JobDescription == <<"J", "o", "b", " ", "D", "e", "s", "c", "r", "i", "p", "t", "i", "o", "n">>

StartDate == <<"S", "t", "a", "r", "t", " ", "D", "a", "t", "e">>

EndDate == <<"E", "n", "d", " ", "D", "a", "t", "e">>

JunkLine == <<"A", "p", "p", "l", "i", "c", "a", "t", "i", "o", "n", " ", "F", "o", "r", "m", " ", "2", "0", "2", "5">>

\* An employment table as the PDF prints it: the marker line, the header
\* lines, n data lines of one letter each (line nrf, if any, reads "No
\* Records Found"), and an "Employment List" line after data line `list`.
EmpForms ==
  {f \in [marker : {"exact", "lower", "absent"},
          header : {"full", "partial", "none"},
          n      : 0..MaxData,
          nrf    : 0..MaxData,
          upper  : BOOLEAN,
          list   : -1..MaxData,
          layout : {"plain", "padded", "spaced"}] :
     /\ f.nrf <= f.n /\ f.list <= f.n
     /\ f.upper => f.nrf > 0
     /\ f.layout # "plain" => f.list = -1
     /\ f.marker # "exact" => f.layout = "plain" /\ f.list = -1 /\ f.nrf = 0}

EmpData(f) ==
  [i \in 1..f.n |->
     IF i = f.nrf THEN (IF f.upper THEN UpperNoRecords ELSE NO_RECORDS_FOUND)
     ELSE <<Letters[i]>>]

EmpHeader(f) ==
  (CASE f.marker = "exact"  -> <<EMPLOYER>>
     [] f.marker = "lower"  -> <<LowerEmployer>>
     [] f.marker = "absent" -> <<>>)
  \o (CASE f.header = "full"    -> <<JobDescription, StartDate, EndDate, CONTACT_NAME>>
        [] f.header = "partial" -> <<JobDescription, StartDate, EndDate>>
        [] f.header = "none"    -> <<>>)

EmpBody(f) ==
  IF f.list < 0 THEN EmpData(f)
  ELSE SubSeq(EmpData(f), 1, f.list) \o <<EMPLOYMENT_LIST>>
       \o SubSeq(EmpData(f), f.list + 1, f.n)

LayOut(lines, layout) ==
  CASE layout = "plain"  -> JoinWith(lines, NL)
    [] layout = "padded" -> JoinWith([i \in 1..Len(lines) |-> <<" ">> \o lines[i] \o <<" ", "\t">>], NL)
    [] layout = "spaced" -> JoinWith(lines, NL \o NL)

EmpText(f) == LayOut(EmpHeader(f) \o EmpBody(f), f.layout)

\* the fields of the record, in the order _extract_info looks them up
FieldIds ==
  << "application_ref", "title", "first_name", "middle_name",
     "last_name", "dob", "email", "mobile",
     "nationality", "program", "intake", "campus",
     "term_postcode", "address_line_1", "city", "postcode",
     "country", "fee_payer", "previous_loan", "reference_name",
     "reference_email" >>

FieldSet == {FieldIds[i] : i \in 1..Len(FieldIds)}

\* the value printed for the i-th field
FieldValue(i) == <<"v", Letters[i]>>

\* An application form: a title line, the lines of the fields in `fields`
\* ("Label: value" or the label and the value on two lines), and an
\* employment table.
InfoForms ==
  [fields : {{}, FieldSet} \cup {{k} : k \in FieldSet}
            \cup {FieldSet \ {k} : k \in {"title", "mobile", "term_postcode", "postcode"}},
   layout : {"inline", "nextline"},
   emp    : {"none", "nrf", "one"}]

RECURSIVE InfoFieldLines(_, _)
InfoFieldLines(f, i) ==
  IF i > Len(FieldIds) THEN <<>>
  ELSE (IF FieldIds[i] \notin f.fields THEN <<>>
        ELSE IF f.layout = "inline"
             THEN <<LABELS[FieldIds[i]] \o <<":", " ">> \o FieldValue(i)>>
             ELSE <<LABELS[FieldIds[i]], FieldValue(i)>>)
       \o InfoFieldLines(f, i + 1)

InfoEmpLines(f) ==
  CASE f.emp = "none" -> <<>>
    [] f.emp = "nrf"  -> <<EMPLOYER, JobDescription, StartDate, EndDate, CONTACT_NAME,
                           NO_RECORDS_FOUND>>
    [] f.emp = "one"  -> <<EMPLOYER, JobDescription, StartDate, EndDate, CONTACT_NAME,
                           <<"a">>, <<"b">>, <<"c">>, <<"d">>, <<"e">> >>

InfoText(f) == JoinWith(<<JunkLine>> \o InfoFieldLines(f, 1) \o InfoEmpLines(f), NL)

---------------------------------------------------------------------------
(* The CV renderer (src/app/core/cv_maker.py): text and values.            *)
(*                                                                         *)
(* A character outside ASCII is a named atom.  Python's None is a value no *)
(* str equals.  A dict is a record or a function on its keys, {} is <<>>.  *)
(* A value whose Python type varies in the inputs (a section that is a     *)
(* list in one payload and a number in another) carries its type.          *)

Bullet == "bullet"
EnDash == "en-dash"
WhiteBullet == "white-bullet"
Triangle == "triangle"
EmDash == "em-dash"
Diamond == "diamond"

None == <<"None">>

PyList(items) == [type |-> "list", items |-> items]

PyInt(n) == [type |-> "int", value |-> n]

\* bool(v) of a str or None
Falsy(v) == v = None \/ v = <<>>

\* bool(v) of a list or a number
Truthy(v) == IF v.type = "list" THEN v.items # <<>> ELSE v.value # 0

\* d.get(k, default)
Get(d, k, default) == IF k \in DOMAIN d THEN d[k] ELSE default

\* the text an f-string puts for v
Format(v) == IF v = None THEN <<"N", "o", "n", "e">> ELSE v

\* filter(None, values)
Filter(values) == SelectSeq(values, LAMBDA v : ~Falsy(v))

LetterSet == {Letters[i] : i \in 1..26}

UpperOf == [c \in LetterSet |-> Capitals[CHOOSE i \in 1..26 : Letters[i] = c]]

Upper(c) == IF c \in LetterSet THEN UpperOf[c] ELSE c

\* str.upper()
UpperStr(s) == [i \in 1..Len(s) |-> Upper(s[i])]

\* str.title(): a letter is upper case after a non-letter, lower case after a letter
TitleStr(s) ==
  [i \in 1..Len(s) |->
     IF i = 1 \/ s[i - 1] \notin (LetterSet \cup CapitalSet)
     THEN Upper(s[i]) ELSE Lower(s[i])]

\* str.strip(chars)
StripChars(s, chars) ==
  LET a == SkipWhile(s, 1, chars)
      b == SkipBack(s, Len(s), chars)
  IN  IF a > b THEN EmptyStr ELSE SubSeq(s, a, b)

RECURSIVE SumLen(_, _)
\* sum(len(t) for t in texts[i:])
SumLen(texts, i) ==
  IF i > Len(texts) THEN 0 ELSE Len(texts[i]) + SumLen(texts, i + 1)

RECURSIVE Concat(_, _)
\* ''.join(texts[i:])
Concat(texts, i) ==
  IF i > Len(texts) THEN <<>> ELSE texts[i] \o Concat(texts, i + 1)

---------------------------------------------------------------------------
(* _fmt_date: datetime.strptime(span, '%Y-%m').strftime('%b %Y').           *)

Digits == <<"0", "1", "2", "3", "4", "5", "6", "7", "8", "9">>

DigitSet == {Digits[i] : i \in 1..10}

DigitVal(c) == (CHOOSE i \in 1..10 : Digits[i] = c) - 1

MonthAbbr == <<<<"J", "a", "n">>, <<"F", "e", "b">>, <<"M", "a", "r">>, <<"A", "p", "r">>, <<"M", "a", "y">>, <<"J", "u", "n">>,
               <<"J", "u", "l">>, <<"A", "u", "g">>, <<"S", "e", "p">>, <<"O", "c", "t">>, <<"N", "o", "v">>, <<"D", "e", "c">>>>

PRESENT == <<"P", "r", "e", "s", "e", "n", "t">>

RECURSIVE Decimal(_)
\* '%d' % n, n >= 0
Decimal(n) ==
  IF n < 10 THEN <<Digits[n + 1]>> ELSE Decimal(n \div 10) \o <<Digits[(n % 10) + 1]>>

NoDate == [ok |-> FALSE, year |-> 0, month |-> 0]

\* %m of strptime at position i: the regular expression 1[0-2]|0[1-9]|[1-9],
\* alternatives tried in this order; end is the position after the match
MonthAt(s, i) ==
  IF i + 1 <= Len(s) /\ s[i] = "1" /\ s[i + 1] \in {"0", "1", "2"}
    THEN [ok |-> TRUE, month |-> 10 + DigitVal(s[i + 1]), end |-> i + 2]
  ELSE IF i + 1 <= Len(s) /\ s[i] = "0" /\ s[i + 1] \in (DigitSet \ {"0"})
    THEN [ok |-> TRUE, month |-> DigitVal(s[i + 1]), end |-> i + 2]
  ELSE IF i <= Len(s) /\ s[i] \in (DigitSet \ {"0"})
    THEN [ok |-> TRUE, month |-> DigitVal(s[i]), end |-> i + 1]
  ELSE [ok |-> FALSE, month |-> 0, end |-> i]

\* a mutant of strptime: the month must have two digits
strptime_two_digit(s) ==
  IF /\ Len(s) = 7
     /\ \A i \in 1..4 : s[i] \in DigitSet
     /\ s[5] = "-"
     /\ s[6] \in DigitSet /\ s[7] \in DigitSet
     /\ 10 * DigitVal(s[6]) + DigitVal(s[7]) \in 1..12
     /\ \E i \in 1..4 : s[i] # "0"
  THEN [ok |-> TRUE,
        year |-> 1000 * DigitVal(s[1]) + 100 * DigitVal(s[2])
                 + 10 * DigitVal(s[3]) + DigitVal(s[4]),
        month |-> 10 * DigitVal(s[6]) + DigitVal(s[7])]
  ELSE NoDate

\* datetime.strptime(s, '%Y-%m'): \d\d\d\d, '-', %m, nothing left over, and a
\* year datetime accepts (MINYEAR is 1); ok is FALSE where it raises ValueError
strptime(s) ==
  IF /\ Len(s) >= 6
     /\ \A i \in 1..4 : s[i] \in DigitSet
     /\ s[5] = "-"
  THEN LET m == MonthAt(s, 6)
           y == 1000 * DigitVal(s[1]) + 100 * DigitVal(s[2])
                + 10 * DigitVal(s[3]) + DigitVal(s[4])
       IN  IF m.ok /\ m.end = Len(s) + 1 /\ y >= 1
           THEN [ok |-> TRUE, year |-> y, month |-> m.month]
           ELSE NoDate
  ELSE NoDate

\* date.strftime('%b %Y'): glibc writes the year without leading zeros
strftime(d) == MonthAbbr[d.month] \o <<" ">> \o Decimal(d.year)

_fmt_date(span_) ==
  IF Falsy(span_) THEN PRESENT
  ELSE LET d == strptime(span_)
       IN  IF d.ok THEN strftime(d) ELSE span_

---------------------------------------------------------------------------
(* The style bundle.                                                       *)

FONTS == <<"Calibri", "Cambria", "Arial", "Garamond", "Georgia", "Verdana">>

BULLETS == <<Bullet, EnDash, WhiteBullet, Triangle>>

\* the four divider lines, by name: no writer puts a divider in the document
DIVIDERS == <<"rule", "rule-section-rule", "dots", "dashes">>

\* RGBColor values, written as '{:02X}{:02X}{:02X}' writes them
COLOURS == <<"004C99", "4E9A06", "AA0000", "2E3436">>

ALIGNMENTS == <<"LEFT", "CENTER">>

BORDERS == <<"single", "double", "dotted", "dashed", "dotDash">>

WHITE == "FFFFFF"

Range(s) == {s[i] : i \in DOMAIN s}

\* every bundle one call of _rand_style() can return
_rand_style ==
  [font : Range(FONTS), colour : Range(COLOURS), bullet : Range(BULLETS),
   divider : Range(DIVIDERS), headings_upper : BOOLEAN,
   name_align : Range(ALIGNMENTS), show_dividers : BOOLEAN,
   border : Range(BORDERS), template : 0..4]

---------------------------------------------------------------------------
(* The document: paragraphs of runs, and tables of cells.  A container is  *)
(* the document body or a table cell; error is the exception that ended    *)
(* the writing ("" while none was raised), by the writer that is running.  *)

Run(t) == [text |-> t, bold |-> FALSE, italic |-> FALSE, colour |-> ""]

Paragraph(runs) ==
  [kind |-> "paragraph", style |-> "Normal", runs |-> runs, alignment |-> "",
   keep_with_next |-> FALSE, border |-> "", shd |-> <<>>, by |-> ""]

Table(rows) == [kind |-> "table", rows |-> rows, by |-> ""]

Cell(body) == [body |-> body, shd |-> ""]

\* Paragraph.text
ParaText(p) == Concat([i \in 1..Len(p.runs) |-> p.runs[i].text], 1)

\* Paragraph.add_run
AddRun(p, r) == [p EXCEPT !.runs = Append(@, r)]

\* a new table cell holds one empty paragraph
NewCell == [body |-> <<Paragraph(<<>>)>>, error |-> "", by |-> ""]

\* an element is appended unless an exception has ended the writing
Add(container, e) ==
  IF container.error # "" THEN container
  ELSE [container EXCEPT !.body = Append(@, [e EXCEPT !.by = container.by])]

Raise(container, e) ==
  IF container.error # "" THEN container ELSE [container EXCEPT !.error = e]

\* container.add_paragraph(text): no run for an empty text
add_paragraph(container, t) ==
  Add(container, Paragraph(IF t = <<>> THEN <<>> ELSE <<Run(t)>>))

\* container.add_table: a table cell puts an empty paragraph after the table
add_table(container, rows) ==
  IF "page_height" \in DOMAIN container THEN Add(container, Table(rows))
  ELSE Add(Add(container, Table(rows)), Paragraph(<<>>))

InSeq(x, s) == \E i \in 1..Len(s) : s[i] = x

---------------------------------------------------------------------------
(* The builders.                                                           *)

_add_heading(doc_, text_, style) ==
  LET r == [Run(IF style.headings_upper THEN UpperStr(text_) ELSE TitleStr(text_))
              EXCEPT !.bold = TRUE, !.colour = style.colour]
      \* style.get('border') not in (None, '', 'none')
      p == [Paragraph(<<r>>) EXCEPT
              !.keep_with_next = TRUE,
              !.border = IF style.border \notin {"", "none"} THEN style.border ELSE ""]
  IN  Add(doc_, p)

\* shade(par, rgb) of template 2, on the paragraph the heading writer returned
shade(doc_, rgb) ==
  IF doc_.error # "" THEN doc_
  ELSE LET n == Len(doc_.body)
           par == doc_.body[n]
           runs == [i \in 1..Len(par.runs) |-> [par.runs[i] EXCEPT !.colour = WHITE]]
       IN  [doc_ EXCEPT !.body[n] = [par EXCEPT !.shd = Append(@, rgb), !.runs = runs]]

RECURSIVE add_shaded(_, _, _, _)

\* a call of the global name _add_heading while it is bound to g nested
\* add_shaded closures around the function defined at line 61
Heading(g, doc_, text_, st) ==
  IF g = 0 THEN _add_heading(doc_, text_, st) ELSE add_shaded(g - 1, doc_, text_, st)

\* add_shaded of template 2; original is what _add_heading was bound to when the
\* closure was made
add_shaded(original, doc_, text_, st) ==
  shade(Heading(original, doc_, text_, st), st.colour)

BulletRun(style) == Run(<<style.bullet, " ">>)

RECURSIVE AddBullets(_, _, _, _)
\* the loop of _add_bullets from the i-th item on
AddBullets(doc_, items, i, style) ==
  IF i > Len(items) THEN doc_
  ELSE AddBullets(Add(doc_, Paragraph(<<BulletRun(style), Run(items[i])>>)),
                  items, i + 1, style)

_add_bullets(doc_, items, style) == AddBullets(doc_, items, 1, style)

\* a mutant of _add_two_cols: no else branch, items[idx] is read for every cell
_add_two_cols_unguarded(doc_, items, style) ==
  IF items.type # "list" THEN Raise(doc_, "TypeError")
  ELSE IF Len(items.items) % 2 = 1 THEN Raise(doc_, "IndexError")
  ELSE LET n_rows == Len(items.items) \div 2
           cell(r, c) ==
             Cell(<<Paragraph(<<Run(<<style.bullet, " ">>
                                    \o Format(items.items[r + c * n_rows + 1]))>>)>>)
       IN  add_table(doc_, [r \in 1..n_rows |-> <<cell(r - 1, 0), cell(r - 1, 1)>>])

\* _add_two_cols filling the grid row by row
_add_two_cols_rowwise(doc_, items, style) ==
  IF items.type # "list" THEN Raise(doc_, "TypeError")
  ELSE LET n_rows == (Len(items.items) + 1) \div 2
           cell(r, c) ==
             LET idx == 2 * r + c
             IN  IF idx < Len(items.items)
                 THEN Cell(<<Paragraph(<<Run(<<style.bullet, " ">>
                                             \o Format(items.items[idx + 1]))>>)>>)
                 ELSE Cell(<<Paragraph(<<Run(<<>>)>>)>>)
       IN  add_table(doc_, [r \in 1..n_rows |-> <<cell(r - 1, 0), cell(r - 1, 1)>>])

\* len(items) raises TypeError for a number; r, c and idx count from 0 as in the code
_add_two_cols(doc_, items, style) ==
  IF items.type # "list" THEN Raise(doc_, "TypeError")
  ELSE LET n_rows == (Len(items.items) + 1) \div 2
           cell(r, c) ==
             LET idx == r + c * n_rows
             IN  IF idx < Len(items.items)
                 THEN Cell(<<Paragraph(<<Run(<<style.bullet, " ">>
                                             \o Format(items.items[idx + 1]))>>)>>)
                 ELSE Cell(<<Paragraph(<<Run(<<>>)>>)>>)
       IN  add_table(doc_, [r \in 1..n_rows |-> <<cell(r - 1, 0), cell(r - 1, 1)>>])

\* _tl_dates leaving a missing end date empty
_tl_dates_open(rec, start_k, end_k) ==
  LET start == Get(rec, start_k, None)
      end == Get(rec, end_k, None)
  IN  IF Falsy(start) /\ Falsy(end) THEN <<>>
      ELSE LET start_txt == IF Falsy(start) THEN <<>> ELSE _fmt_date(start)
               end_txt == IF Falsy(end) THEN <<>> ELSE _fmt_date(end)
           IN  StripChars(start_txt \o <<" ", EnDash, " ">> \o end_txt, {" ", EnDash})

_tl_dates(rec, start_k, end_k) ==
  LET start == Get(rec, start_k, None)
      end == Get(rec, end_k, None)
  IN  IF Falsy(start) /\ Falsy(end) THEN <<>>
      ELSE LET start_txt == IF Falsy(start) THEN <<>> ELSE _fmt_date(start)
               end_txt == IF Falsy(end) THEN PRESENT ELSE _fmt_date(end)
           IN  StripChars(start_txt \o <<" ", EnDash, " ">> \o end_txt, {" ", EnDash})

_tl_work(p, rec) ==
  AddRun(AddRun(p, [Run(Format(Get(rec, "position", <<>>))) EXCEPT !.bold = TRUE]),
         Run(<<" ", EmDash, " ">> \o Format(Get(rec, "company", <<>>))))

_tl_edu(p, rec) ==
  LET p2 == AddRun(AddRun(p, [Run(Format(Get(rec, "degree", <<>>))) EXCEPT !.bold = TRUE]),
                   Run(<<",", " ">> \o Format(Get(rec, "institution", <<>>))))
  IN  IF ~Falsy(Get(rec, "location", None))
      THEN AddRun(p2, Run(<<" ", EmDash, " ">> \o Format(rec.location)))
      ELSE p2

\* fmt_fn(p, rec), fmt_fn being the name of _tl_work or of _tl_edu
CallFmt(fmt_fn, p, rec) ==
  IF fmt_fn = "_tl_work" THEN _tl_work(p, rec) ELSE _tl_edu(p, rec)

\* the rows of the table of _write_timeline
TimelineRow(rec, st, start_k, end_k, fmt_fn) ==
  LET lines == Get(rec, "responsibilities", <<>>)
      bullets == [i \in 1..Len(lines) |-> Paragraph(<<BulletRun(st), Run(lines[i])>>)]
  IN  << Cell(<<Paragraph(<<Run(_tl_dates(rec, start_k, end_k))>>)>>),
         Cell(<<CallFmt(fmt_fn, Paragraph(<<>>), rec)>> \o bullets) >>

\* len(rows) raises TypeError for a number, after the heading is written
_write_timeline(g, doc_, title, rows, st, start_k, end_k, fmt_fn) ==
  LET c1 == Heading(g, doc_, title, st)
  IN  IF rows.type # "list" THEN Raise(c1, "TypeError")
      ELSE add_table(c1, [i \in 1..Len(rows.items) |->
                            TimelineRow(rows.items[i], st, start_k, end_k, fmt_fn)])

---------------------------------------------------------------------------
(* The section writers of _section_writers.  g is what the global name     *)
(* _add_heading is bound to while the writer runs.                         *)

work_entry(acc, jb, st) ==
  LET head == Format(Get(jb, "position", <<>>)) \o <<" ", EmDash, " ">>
              \o Format(Get(jb, "company", <<>>))
      dates == [Run(<<" ", " ">> \o _tl_dates(jb, "start_date", "end_date"))
                  EXCEPT !.italic = TRUE]
  IN  _add_bullets(Add(acc, AddRun(Paragraph(<<Run(head)>>), dates)),
                   Get(jb, "responsibilities", <<>>), st)

RECURSIVE work_entries(_, _, _, _)
\* for jb in jobs[i:]
work_entries(acc, jobs, i, st) ==
  IF i > Len(jobs) THEN acc
  ELSE work_entries(work_entry(acc, jobs[i], st), jobs, i + 1, st)

\* iterating a number raises TypeError, after the heading is written
work(g, doc_, jobs, st) ==
  LET c1 == Heading(g, doc_, <<"W", "o", "r", "k", " ", "H", "i", "s", "t", "o", "r", "y">>, st)
  IN  IF jobs.type # "list" THEN Raise(c1, "TypeError")
      ELSE work_entries(c1, jobs.items, 1, st)

edu_entry(acc, ed) ==
  LET parts == <<Get(ed, "degree", <<>>), Get(ed, "institution", <<>>),
                 Get(ed, "location", <<>>)>>
      head == JoinWith(Filter(parts), <<",", " ">>)
      dates == _tl_dates(ed, "start_date", "end_date")
      p == Paragraph(IF head = <<>> THEN <<>> ELSE <<Run(head)>>)
      c1 == Add(acc, IF dates # <<>>
                     THEN AddRun(p, [Run(<<" ", " ">> \o dates) EXCEPT !.italic = TRUE])
                     ELSE p)
  IN  IF ~Falsy(Get(ed, "result", None))
      THEN add_paragraph(c1, <<"R", "e", "s", "u", "l", "t", ":", " ">> \o Format(ed.result))
      ELSE c1

RECURSIVE edu_entries(_, _, _)
\* for ed in edu[i:]
edu_entries(acc, edu, i) ==
  IF i > Len(edu) THEN acc ELSE edu_entries(edu_entry(acc, edu[i]), edu, i + 1)

edu_w(g, doc_, edu, st) ==
  LET c1 == Heading(g, doc_, <<"E", "d", "u", "c", "a", "t", "i", "o", "n">>, st)
  IN  IF edu.type # "list" THEN Raise(c1, "TypeError")
      ELSE edu_entries(c1, edu.items, 1)

skills_w(g, doc_, skills, st) ==
  _add_two_cols(Heading(g, doc_, <<"S", "k", "i", "l", "l", "s">>, st), skills, st)

\* l["language"] and l["level"] raise KeyError for a record without the key
langs_w(g, doc_, langs, st) ==
  LET c1 == Heading(g, doc_, <<"L", "a", "n", "g", "u", "a", "g", "e", "s">>, st)
  IN  IF langs.type # "list" THEN Raise(c1, "TypeError")
      ELSE IF \E i \in 1..Len(langs.items) :
                ~({"language", "level"} \subseteq DOMAIN langs.items[i])
      THEN Raise(c1, "KeyError")
      ELSE _add_two_cols(
             c1,
             PyList([i \in 1..Len(langs.items) |->
                       Format(langs.items[i].language) \o <<" ", "(">>
                       \o Format(langs.items[i].level) \o <<")">>]),
             st)

\* c["name"], c["issuer"] and c["date_awarded"] raise KeyError likewise
certs_entry(acc, c) ==
  IF ~({"name", "issuer", "date_awarded"} \subseteq DOMAIN c) THEN Raise(acc, "KeyError")
  ELSE add_paragraph(acc, Format(c.name) \o <<" ", EmDash, " ">> \o Format(c.issuer)
                          \o <<" ", "(">> \o _fmt_date(c.date_awarded) \o <<")">>)

RECURSIVE certs_entries(_, _, _)
\* for c in certs[i:]
certs_entries(acc, certs, i) ==
  IF i > Len(certs) THEN acc ELSE certs_entries(certs_entry(acc, certs[i]), certs, i + 1)

certs_w(g, doc_, certs, st) ==
  LET c1 == Heading(g, doc_, <<"C", "e", "r", "t", "i", "f", "i", "c", "a", "t", "i", "o", "n", "s">>, st)
  IN  IF certs.type # "list" THEN Raise(c1, "TypeError")
      ELSE certs_entries(c1, certs.items, 1)

\* the writers w holds, in the order they are put in it, and the payload key of each
WRITERS == <<"work", "edu", "skills", "langs", "certs">>

SECTION_KEY ==
  [work |-> "employment_history", edu |-> "education_history", skills |-> "skills",
   langs |-> "language_qualifications", certs |-> "certifications"]

\* payload.get(key) is truthy
HasSection(data, key) == key \in DOMAIN data /\ Truthy(data[key])

\* _section_writers keeping every section whose key is in the payload
_section_writers_keyed(data) ==
  SelectSeq(WRITERS, LAMBDA k : SECTION_KEY[k] \in DOMAIN data)

\* the keys of the dict _section_writers returns
_section_writers(data) == SelectSeq(WRITERS, LAMBDA k : HasSection(data, SECTION_KEY[k]))

\* w[k](), writing into doc_
CallWriter(k, g, doc_, data, st) ==
  LET c == [doc_ EXCEPT !.by = k]
      v == data[SECTION_KEY[k]]
  IN  CASE k = "work"   -> work(g, c, v, st)
        [] k = "edu"    -> edu_w(g, c, v, st)
        [] k = "skills" -> skills_w(g, c, v, st)
        [] k = "langs"  -> langs_w(g, c, v, st)
        [] k = "certs"  -> certs_w(g, c, v, st)

RECURSIVE WriteFrom(_, _, _, _, _, _)
\* for k in keys[i:]: if k in writers: writers[k]()
WriteFrom(keys, i, g, doc_, data, st) ==
  IF i > Len(keys) THEN doc_
  ELSE WriteFrom(keys, i + 1, g,
                 IF InSeq(keys[i], _section_writers(data))
                 THEN CallWriter(keys[i], g, doc_, data, st) ELSE doc_,
                 data, st)

WriteInOrder(keys, g, doc_, data, st) == WriteFrom(keys, 1, g, doc_, data, st)

---------------------------------------------------------------------------
(* Page length.  Lengths are in EMU, as python-docx keeps them:            *)
(* 360000 EMU are 1 cm.                                                    *)

\* Cm(mm / 10)
Cm(mm) == mm * 36000

\* Document(), then lines 221-225; the page of the default template is 11 in high
Document(font, size) ==
  [body |-> <<>>, error |-> "", by |-> "", font |-> font, size |-> size,
   page_height |-> 10058400,
   top_margin |-> Cm(12), bottom_margin |-> Cm(12),
   left_margin |-> Cm(15), right_margin |-> Cm(15)]

\* round(n / d): halves go to the even neighbour
Round(n, d) ==
  LET q == n \div d
      r == n % d
  IN  IF 2 * r < d THEN q
      ELSE IF 2 * r > d THEN q + 1
      ELSE IF q % 2 = 0 THEN q ELSE q + 1

\* doc.paragraphs holds the paragraphs of the body, not those inside tables
_rough_line_count(doc_, chars_per_line) ==
  LET paragraphs == SelectSeq(doc_.body, LAMBDA e : e.kind = "paragraph")
      total_chars == SumLen([i \in 1..Len(paragraphs) |-> ParaText(paragraphs[i])], 1)
      lines == Round(total_chars, chars_per_line)
  IN  IF lines > 1 THEN lines ELSE 1

\* _ensure_one_page that also inflates a document of exactly one page
_ensure_one_page_strict(doc_) ==
  LET usable == doc_.page_height - (doc_.top_margin + doc_.bottom_margin)
      lines_per_page == usable \div 168480
  IN  IF _rough_line_count(doc_, 80) > lines_per_page THEN doc_
      ELSE [doc_ EXCEPT !.size = @ + 1,
                        !.top_margin = @ + Cm(10),
                        !.bottom_margin = @ + Cm(10)]

\* 0.39 * 1.2 cm are 168480 EMU
_ensure_one_page(doc_) ==
  LET usable == doc_.page_height - (doc_.top_margin + doc_.bottom_margin)
      lines_per_page == usable \div 168480
  IN  IF _rough_line_count(doc_, 80) >= lines_per_page THEN doc_
      ELSE [doc_ EXCEPT !.size = @ + 1,
                        !.top_margin = @ + Cm(10),
                        !.bottom_margin = @ + Cm(10)]

---------------------------------------------------------------------------
(* cv_json_to_docx.  template_ is the set of the values given for the      *)
(* optional argument: {} for None, {t} for template=t.                     *)

\* a mutant of Styled: the override is stored as given
Styled_unclamped(drawn_, template_) ==
  IF template_ = {} THEN drawn_
  ELSE [drawn_ EXCEPT !.template = CHOOSE t \in template_ : TRUE]

\* lines 217-219: sty after the override, max(0, min(4, template))
Styled(drawn_, template_) ==
  IF template_ = {} THEN drawn_
  ELSE LET t == CHOOSE t \in template_ : TRUE
           low == IF t < 4 THEN t ELSE 4
       IN  [drawn_ EXCEPT !.template = IF low > 0 THEN low ELSE 0]

\* lines 227-244: the name, and the contact line if there is one
Header(doc_, data, st) ==
  LET pd == Get(data, "personal_details", <<>>)
      first == Get(pd, "first_name", <<>>)
      last == Get(pd, "last_name", <<>>)
      stripped == Strip(Format(first) \o <<" ">> \o Format(last))
      name_text == IF stripped = <<>> THEN <<"N", "a", "m", "e">> ELSE stripped
      h == [Paragraph(<<[Run(name_text) EXCEPT !.colour = st.colour]>>)
              EXCEPT !.style = "Title", !.alignment = st.name_align]
      addr == Get(pd, "address", <<>>)
      address_line == JoinWith(Filter(<<Get(addr, "line1", None), Get(addr, "city", None),
                                        Get(addr, "country", None)>>), <<",", " ">>)
      contact_line == JoinWith(Filter(<<Get(pd, "email", None), Get(pd, "phone", None),
                                        address_line>>), <<" ", Diamond, " ">>)
      c1 == Add([doc_ EXCEPT !.by = "header"], h)
  IN  IF contact_line # <<>>
      THEN Add(c1, [Paragraph(<<Run(contact_line)>>) EXCEPT !.alignment = st.name_align])
      ELSE c1

\* lines 247-248
Profile(g, doc_, data, st) ==
  LET summary == Get(data, "profile", None)
  IN  IF ~Falsy(summary)
      THEN add_paragraph(Heading(g, [doc_ EXCEPT !.by = "profile"], <<"P", "r", "o", "f", "i", "l", "e">>, st),
                         summary)
      ELSE doc_

\* template 0: the writers in the order random.shuffle left them; order is a
\* permutation of the positions of the writers
Classic(g, doc_, data, st, order) ==
  LET w == _section_writers(data)
  IN  WriteInOrder([i \in 1..Len(w) |-> w[order[i]]], g, doc_, data, st)

\* template 1
Timeline(g, doc_, data, st) ==
  LET c1 == IF HasSection(data, "employment_history")
            THEN _write_timeline(g, [doc_ EXCEPT !.by = "work"], <<"W", "o", "r", "k", " ", "H", "i", "s", "t", "o", "r", "y">>,
                                 data.employment_history, st,
                                 "start_date", "end_date", "_tl_work")
            ELSE doc_
      c2 == IF HasSection(data, "education_history")
            THEN _write_timeline(g, [c1 EXCEPT !.by = "edu"], <<"E", "d", "u", "c", "a", "t", "i", "o", "n">>,
                                 data.education_history, st,
                                 "start_date", "end_date", "_tl_edu")
            ELSE c1
  IN  WriteInOrder(<<"skills", "langs", "certs">>, g, c2, data, st)

\* template 2: while the writers run, _add_heading is bound to add_shaded
Shaded(g, doc_, data, st) ==
  WriteInOrder(<<"edu", "work", "skills", "langs", "certs">>, g + 1, doc_, data, st)

\* template 3: a table of one row and two cells is added, the left cell shaded,
\* and the writers write into the cells; an exception in the left cell ends the call
\* the 1 x 2 table with what the tasks wrote into its cells: the right tasks
\* run only when no left task raised
SidebarTable(doc_, left, right) ==
  LET right_body == IF left.error # "" THEN NewCell.body ELSE right.body
      tbl == Table(<< << [body |-> left.body, shd |-> "F2F2F2"],
                         [body |-> right_body, shd |-> ""] >> >>)
      c1 == Add([doc_ EXCEPT !.by = "layout"], tbl)
  IN  IF left.error # "" THEN Raise(c1, left.error)
      ELSE IF right.error # "" THEN Raise(c1, right.error)
      ELSE c1

\* the sidebar with education routed to the left cell
Sidebar_edu_left(g, doc_, data, st) ==
  SidebarTable(doc_,
               WriteInOrder(<<"skills", "langs", "certs", "edu">>, g, NewCell, data, st),
               WriteInOrder(<<"work">>, g, NewCell, data, st))

Sidebar(g, doc_, data, st) ==
  SidebarTable(doc_,
               WriteInOrder(<<"skills", "langs", "certs">>, g, NewCell, data, st),
               WriteInOrder(<<"work", "edu">>, g, NewCell, data, st))

\* template 4 with the writers in the order of the dict
Minimalist_dict_order(g, doc_, data, st) ==
  WriteInOrder(WRITERS, g, doc_, data, [st EXCEPT !.border = "none"])

\* template 4: sty['border'] is 'none' when the writers run
Minimalist(g, doc_, data, st) ==
  WriteInOrder(<<"work", "skills", "edu", "langs", "certs">>, g, doc_,
               data, [st EXCEPT !.border = "none"])

\* doc.save(buf); buf.getvalue(): the bytes of a zip archive, of which the
\* signature is kept
save(doc_) == <<"P", "K">>

\* the call: sty is the bundle after the override of line 219, doc the document
\* that was saved, globals_ what _add_heading is bound to when the call ends
\* the template-specific body
Body(g, doc_, data, st, order) ==
  CASE st.template = 0 -> Classic(g, doc_, data, st, order)
    [] st.template = 1 -> Timeline(g, doc_, data, st)
    [] st.template = 2 -> Shaded(g, doc_, data, st)
    [] st.template = 3 -> Sidebar(g, doc_, data, st)
    [] OTHER -> Minimalist(g, doc_, data, st)

\* the export, or the exception that left the body; an exception in template 2
\* leaves the global heading writer patched
Export(g, doc_, st) ==
  IF doc_.error # ""
  THEN [sty |-> st, doc |-> <<>>, globals_ |-> IF st.template = 2 THEN g + 1 ELSE g,
        ret |-> [raised |-> TRUE, error |-> doc_.error, bytes |-> <<>>]]
  ELSE LET d4 == _ensure_one_page(doc_)
       IN  [sty |-> st, doc |-> d4, globals_ |-> g,
            ret |-> [raised |-> FALSE, error |-> "", bytes |-> save(d4)]]

cv_json_to_docx(data, template_, drawn_, body_pt, order, g) ==
  LET st == Styled(drawn_, template_)
  IN  Export(g, Body(g, Profile(g, Header(Document(st.font, body_pt), data, st),
                               data, st),
                     data, st, order),
             st)

---------------------------------------------------------------------------
(* The inputs of the renderer.                                             *)

\* the spans handed to _fmt_date: a year, a separator, a month and a tail
DateForms ==
  {f \in [y : {<<"1", "8", "4", "0">>, <<"2", "0", "2", "4">>, <<"0", "8", "4", "0">>, <<"0", "0", "0", "1">>, <<"0", "0", "0", "0">>, <<"1", "8", "4">>, <<"1", "8", "4", "0", "0">>,
               <<" ", "1", "8", "4", "0">>, None, <<>>, <<"n", "o", "t", "-", "a", "-", "d", "a", "t", "e">>},
          sep : {<<"-">>, <<"/">>, <<>>},
          m : {<<"0", "1">>, <<"1">>, <<"0", "9">>, <<"9">>, <<"1", "0">>, <<"1", "2">>, <<"1", "3">>, <<"0", "0">>, <<"0">>,
               <<"0", "1", "1">>, <<"J", "a">>, <<>>},
          tail : {<<>>, <<" ">>, <<"-", "0", "5">>}] :
     f.y \in {None, <<>>, <<"n", "o", "t", "-", "a", "-", "d", "a", "t", "e">>} => f.sep = <<>> /\ f.m = <<>> /\ f.tail = <<>>}

DateText(f) == f.y \o f.sep \o f.m \o f.tail

PD == [first_name |-> <<"A", "d", "a">>, last_name |-> <<"B", "y", "r", "o", "n">>, email |-> <<"a", "@", "b", ".", "u", "k">>,
       address |-> [city |-> <<"E", "l", "y">>, country |-> <<"U", "K">>]]

JOB == [position |-> <<"A", "n", "a", "l", "y", "s", "t">>, company |-> <<"E", "n", "g", "i", "n", "e", " ", "L", "a", "b">>,
        start_date |-> <<"1", "8", "4", "0", "-", "0", "1">>, end_date |-> <<"1", "8", "4", "3", "-", "1", "2">>,
        responsibilities |-> <<<<"W", "r", "o", "t", "e", " ", "n", "o", "t", "e", "s">>>>]

EDU == [degree |-> <<"B", "S", "c">>, institution |-> <<"L", "o", "n", "d", "o", "n">>, location |-> <<"U", "K">>,
        start_date |-> <<"1", "8", "3", "1", "-", "1", "0">>, end_date |-> <<"1", "8", "3", "5", "-", "0", "7">>, result |-> <<"F", "i", "r", "s", "t">>]

LANG == [language |-> <<"F", "r", "e", "n", "c", "h">>, level |-> <<"f", "l", "u", "e", "n", "t">>]

CERT == [name |-> <<"F", "e", "l", "l", "o", "w">>, issuer |-> <<"S", "o", "c", "i", "e", "t", "y">>, date_awarded |-> <<"1", "8", "4", "8", "-", "0", "5">>]

\* the i-th of the skills of a list
Skill(i) == <<"s", Digits[i + 1]>>

SkillList(n) == PyList([i \in 1..n |-> Skill(i)])

\* a payload of the documented shape with every section
Typical ==
  [personal_details |-> PD,
   profile |-> <<"F", "i", "r", "s", "t", " ", "p", "r", "o", "g", "r", "a", "m", "m", "e", "r">>,
   employment_history |-> PyList(<<JOB>>),
   education_history |-> PyList(<<EDU>>),
   skills |-> SkillList(3),
   language_qualifications |-> PyList(<<LANG>>),
   certifications |-> PyList(<<CERT>>)]

OptionalKeys ==
  {"profile", "employment_history", "education_history", "skills",
   "language_qualifications", "certifications"}

\* d without the keys K
Without(d, K) == [k \in DOMAIN d \ K |-> d[k]]

\* the personal details and the sections K of Typical
Sections(K) == [k \in K \cup {"personal_details"} |-> Typical[k]]

\* the personal details and one section
Only(key, v) == [k \in {"personal_details", key} |-> IF k = key THEN v ELSE PD]

\* every subset of the optional sections
SubsetPayloads == {Sections(K) : K \in SUBSET OptionalKeys}

\* no key; no optional key; every optional section empty
BarePayloads ==
  { <<>>,
    [personal_details |-> [last_name |-> <<"B", "y", "r", "o", "n">>]],
    [personal_details |-> [first_name |-> <<>>, phone |-> <<"0", "1", "2", "3">>]],
    [profile |-> <<>>, employment_history |-> PyList(<<>>),
     education_history |-> PyList(<<>>), skills |-> PyList(<<>>),
     language_qualifications |-> PyList(<<>>), certifications |-> PyList(<<>>)],
    [profile |-> None, skills |-> PyInt(0)] }

\* one section of Typical emptied, the others kept
EmptiedPayloads ==
  {[Typical EXCEPT ![k] = IF k = "profile" THEN <<>> ELSE PyList(<<>>)] : k \in OptionalKeys}

\* work and education records that lack keys or hold dates of other forms
RecordKeySets ==
  { {"end_date"}, {"start_date"}, {"start_date", "end_date"}, {"responsibilities"},
    {"position", "company", "degree", "institution", "location", "result"} }

PartialRecordPayloads ==
  UNION { { Only("employment_history", PyList(<<Without(JOB, K)>>)),
            Only("education_history", PyList(<<Without(EDU, K)>>)) } : K \in RecordKeySets }
  \cup { Only("employment_history", PyList(<<[JOB EXCEPT !.end_date = e], JOB>>)) :
           e \in {None, <<>>, <<"1", "8", "4", "3", "-", "1">>, <<"n", "o", "w">>} }
  \cup { Only("education_history", PyList(<<[EDU EXCEPT !.end_date = e, !.result = <<>>]>>)) :
           e \in {None, <<>>} }
  \cup { Only("certifications", PyList(<<[CERT EXCEPT !.date_awarded = e]>>)) :
           e \in {None, <<"1", "8", "4", "8">>} }

\* skill lists of every length up to MaxSkills
SkillPayloads == {Only("skills", SkillList(n)) : n \in 1..MaxSkills}

\* language and certification records that lack a key
PartialItemPayloads ==
  { Only("language_qualifications", PyList(<<LANG, Without(LANG, {k})>>)) :
      k \in {"language", "level"} }
  \cup { Only("certifications", PyList(<<Without(CERT, {k})>>)) :
           k \in {"name", "issuer", "date_awarded"} }
  \cup { [Typical EXCEPT !.language_qualifications = PyList(<<Without(LANG, {"level"})>>)] }

\* a number where a list is iterated
ScalarPayloads == {Only(SECTION_KEY[WRITERS[i]], PyInt(5)) : i \in 1..Len(WRITERS)}

\* payloads of the documented shape, and the others
ShapedPayloads ==
  SubsetPayloads \cup BarePayloads \cup EmptiedPayloads \cup PartialRecordPayloads
  \cup SkillPayloads

Payloads == ShapedPayloads \cup PartialItemPayloads \cup ScalarPayloads

BaseStyle ==
  [font |-> FONTS[1], colour |-> COLOURS[1], bullet |-> BULLETS[1],
   divider |-> DIVIDERS[1], headings_upper |-> FALSE, name_align |-> ALIGNMENTS[1],
   show_dividers |-> FALSE, border |-> BORDERS[1], template |-> 0]

AltStyle ==
  [font |-> FONTS[6], colour |-> COLOURS[4], bullet |-> BULLETS[2],
   divider |-> DIVIDERS[4], headings_upper |-> TRUE, name_align |-> ALIGNMENTS[2],
   show_dividers |-> TRUE, border |-> BORDERS[5], template |-> 4]

\* the bundles that differ from BaseStyle on at most one axis
OneAxisStyles ==
  {[BaseStyle EXCEPT !.font = v] : v \in Range(FONTS)}
  \cup {[BaseStyle EXCEPT !.colour = v] : v \in Range(COLOURS)}
  \cup {[BaseStyle EXCEPT !.bullet = v] : v \in Range(BULLETS)}
  \cup {[BaseStyle EXCEPT !.divider = v] : v \in Range(DIVIDERS)}
  \cup {[BaseStyle EXCEPT !.headings_upper = v] : v \in BOOLEAN}
  \cup {[BaseStyle EXCEPT !.name_align = v] : v \in Range(ALIGNMENTS)}
  \cup {[BaseStyle EXCEPT !.show_dividers = v] : v \in BOOLEAN}
  \cup {[BaseStyle EXCEPT !.border = v] : v \in Range(BORDERS)}
  \cup {[BaseStyle EXCEPT !.template = v] : v \in 0..4}

\* template=None and template=0..4
Overrides == {{}} \cup {{t} : t \in 0..4}

\* template=None and every value from MaxOverride below 0 to MaxOverride above 4
StyleOverrides == {{}} \cup {{t} : t \in (0 - MaxOverride)..(4 + MaxOverride)}

\* n characters of text
Filler(n) == [i \in 1..n |-> "x"]

\* the characters that fill the lines of one page of a new document
PageChars ==
  LET d == Document(FONTS[1], 12)
  IN  80 * ((d.page_height - (d.top_margin + d.bottom_margin)) \div 168480)

\* payloads about as long as a page: a profile around the length at which the
\* estimate reaches the capacity of the page (the header and the heading add their own
\* characters), and the same text as the duty of a job or as a skill
LongPayloads ==
  { Only("profile", Filler(n)) : n \in {PageChars - 52, PageChars - 51, PageChars} }
  \cup { Only("employment_history",
              PyList(<<[JOB EXCEPT !.responsibilities = <<Filler(PageChars)>>]>>)),
         Only("skills", PyList(<<Filler(PageChars), Skill(1)>>)) }

\* every payload under two bundles, three payloads under every bundle of
\* OneAxisStyles and both body sizes of random.randint(12, 13), and the long
\* payloads under every template and both body sizes
RenderInputs ==
  [payload : Payloads, template : Overrides, drawn : {BaseStyle, AltStyle}, body_pt : {12}]
  \cup [payload : LongPayloads, template : Overrides, drawn : {BaseStyle}, body_pt : 12..13]
  \cup [payload : {Sections({"profile", "education_history", "skills"}),
                   Sections({"employment_history", "certifications"}),
                   Only("language_qualifications", PyList(<<Without(LANG, {"level"})>>))},
        template : Overrides, drawn : OneAxisStyles, body_pt : 12..13]

\* one payload under template=1 and every combination of the other axes of the
\* bundle, and under every override of StyleOverrides and the bundles of
\* OneAxisStyles, which hold every drawn template
StyleInputs ==
  [payload : {Sections({"skills"})}, template : {{1}},
   drawn : {d \in _rand_style : d.template = 4}, body_pt : {12}]
  \cup [payload : {Sections({"skills"})}, template : StyleOverrides,
        drawn : OneAxisStyles \cup {AltStyle}, body_pt : {12}]

\* the threads that call cv_json_to_docx at the same time
Threads == {"T1", "T2"}

\* the frame of a thread that has not made its call
NotCalled == [at |-> "start"]

---------------------------------------------------------------------------
(* The calls.                                                              *)

Init ==
  /\ pc = "idle"
  /\ op = "none"
  /\ text = <<>>
  /\ label = <<>>
  /\ form = <<>>
  /\ ret = <<>>
  /\ span = <<>>
  /\ payload = <<>>
  /\ template = {}
  /\ drawn = <<>>
  /\ rand = <<>>
  /\ sty = <<>>
  /\ doc = <<>>
  /\ globals_add_heading = 0
  /\ request = <<>>
  /\ threads = [t \in Threads |-> NotCalled]

\* _find_value(text, label), default ""
FindValue ==
  /\ pc = "idle"
  /\ \E lines \in SeqsUpTo(FieldLines, MaxLines) \cup ShadowTexts, lbl \in ProbeLabels :
       /\ text' = JoinWith(lines, NL)
       /\ label' = lbl
       /\ form' = lines
       /\ ret' = _find_value(JoinWith(lines, NL), lbl, EmptyStr)
  /\ pc' = "done"
  /\ op' = "_find_value"
  /\ UNCHANGED <<cvVars, globals_add_heading, apiVars>>

\* _extract_employment(text)
ExtractEmployment ==
  /\ pc = "idle"
  /\ \E f \in EmpForms :
       /\ text' = EmpText(f)
       /\ form' = f
       /\ ret' = _extract_employment(EmpText(f))
  /\ label' = <<>>
  /\ pc' = "done"
  /\ op' = "_extract_employment"
  /\ UNCHANGED <<cvVars, globals_add_heading, apiVars>>

\* _extract_info(text)
ExtractInfo ==
  /\ pc = "idle"
  /\ \E f \in InfoForms :
       /\ text' = InfoText(f)
       /\ form' = f
       /\ ret' = _extract_info(InfoText(f))
  /\ label' = <<>>
  /\ pc' = "done"
  /\ op' = "_extract_info"
  /\ UNCHANGED <<cvVars, globals_add_heading, apiVars>>

\* the caller takes the result; the extractor keeps nothing between calls
ExtractReturn ==
  /\ pc = "done"
  /\ op \in {"_find_value", "_extract_employment", "_extract_info"}
  /\ pc' = "idle"
  /\ op' = "none"
  /\ text' = <<>>
  /\ label' = <<>>
  /\ form' = <<>>
  /\ ret' = <<>>
  /\ UNCHANGED <<cvVars, globals_add_heading, apiVars>>

\* _fmt_date(span)
FmtDate ==
  /\ pc = "idle"
  /\ \E f \in DateForms :
       /\ span' = DateText(f)
       /\ form' = f
       /\ ret' = _fmt_date(DateText(f))
  /\ pc' = "done"
  /\ op' = "_fmt_date"
  /\ UNCHANGED <<text, label, payload, template, drawn, rand, sty, doc,
                 globals_add_heading, apiVars>>

\* cv_json_to_docx(payload, template) on one of inputs; random.shuffle draws an
\* order in template 0 only
Render(inputs) ==
  /\ pc = "idle"
  /\ \E x \in inputs :
       \E order \in IF Styled(x.drawn, x.template).template = 0
                    THEN Permutations(1..Len(_section_writers(x.payload)))
                    ELSE {<<>>} :
         \E r \in {cv_json_to_docx(x.payload, x.template, x.drawn, x.body_pt, order,
                                   globals_add_heading)} :
           /\ r.globals_ <= MaxShade
           /\ payload' = x.payload
           /\ template' = x.template
           /\ drawn' = x.drawn
           /\ rand' = [body_pt |-> x.body_pt, order |-> order]
           /\ sty' = r.sty
           /\ doc' = r.doc
           /\ ret' = r.ret
           /\ globals_add_heading' = r.globals_
  /\ pc' = "done"
  /\ op' = "cv_json_to_docx"
  /\ UNCHANGED <<text, label, form, span, apiVars>>

RenderCV == Render(RenderInputs)

RenderAnyStyle == Render(StyleInputs)

\* the caller takes the bytes or the exception; the binding of _add_heading stays
RenderReturn ==
  /\ pc = "done"
  /\ op \in {"_fmt_date", "cv_json_to_docx"}
  /\ pc' = "idle"
  /\ op' = "none"
  /\ form' = <<>>
  /\ ret' = <<>>
  /\ span' = <<>>
  /\ payload' = <<>>
  /\ template' = {}
  /\ drawn' = <<>>
  /\ rand' = <<>>
  /\ sty' = <<>>
  /\ doc' = <<>>
  /\ UNCHANGED <<text, label, globals_add_heading, apiVars>>

---------------------------------------------------------------------------
(* The route POST /generate-cv (src/app/api.py).                           *)

\* the fields of CVPayload and the alias of each (its own name when it has none)
FIELD_NAMES ==
  <<"personal", "contact", "education", "experience", "skills", "projects",
    "certifications", "languages", "interests">>

FIELD_ALIAS ==
  [personal |-> "personal_details", contact |-> "contact",
   education |-> "education_history", experience |-> "employment_history",
   skills |-> "skills", projects |-> "projects", certifications |-> "certifications",
   languages |-> "language_qualifications", interests |-> "interests"]

\* default_factory=dict for personal and contact, default_factory=list for the rest
FieldDefault(f) == IF f \in {"personal", "contact"} THEN <<>> ELSE PyList(<<>>)

\* the keys a body may carry: populate_by_name accepts the alias and the name
AcceptedKeys == Range(FIELD_NAMES) \cup {FIELD_ALIAS[f] : f \in Range(FIELD_NAMES)}

\* CVPayload(**body): extra="forbid" rejects a body with any other key; the
\* model holds the value of each field in the order of FIELD_NAMES
CVPayload(body) ==
  IF ~(DOMAIN body \subseteq AcceptedKeys) THEN [ok |-> FALSE, fields |-> <<>>]
  ELSE [ok |-> TRUE,
        fields |-> [i \in 1..Len(FIELD_NAMES) |->
                      IF FIELD_ALIAS[FIELD_NAMES[i]] \in DOMAIN body
                      THEN body[FIELD_ALIAS[FIELD_NAMES[i]]]
                      ELSE Get(body, FIELD_NAMES[i], FieldDefault(FIELD_NAMES[i]))]]

\* payload.model_dump(): by_alias is False, the keys are the field names
model_dump(model) ==
  [f \in Range(FIELD_NAMES) |->
     model.fields[CHOOSE i \in 1..Len(FIELD_NAMES) : FIELD_NAMES[i] = f]]

\* lines 125-127
Filename(model) ==
  LET first == Strip(Get(model.fields[1], "first_name", <<>>))
      last == Strip(Get(model.fields[1], "last_name", <<>>))
  IN  (IF first # <<>> \/ last # <<>> THEN first \o <<"-">> \o last ELSE <<"c", "v">>)
      \o <<".", "d", "o", "c", "x">>

\* the response of generate_cv for what the renderer returned or raised
Response(model, r) ==
  IF r.ret.raised
  THEN [status |-> 500, detail |-> r.ret.error, body |-> <<>>, filename |-> <<>>]
  ELSE [status |-> 200, detail |-> "", body |-> r.ret.bytes, filename |-> Filename(model)]

\* the validation error FastAPI answers before the route function runs
Unprocessable == [status |-> 422, detail |-> "extra_forbidden", body |-> <<>>, filename |-> <<>>]

\* the JSON bodies: each aliased field absent, under its alias or under its field
\* name; profile, skills and certifications absent or present
KeyChoices(f) == {{}, {FIELD_ALIAS[f]}, {f}}

TypicalField ==
  [personal |-> PD, education |-> PyList(<<EDU>>), experience |-> PyList(<<JOB>>),
   languages |-> PyList(<<LANG>>)]

Bodies ==
  { [k \in p \cup e \cup x \cup l \cup o |->
       CASE k \in p -> TypicalField.personal
         [] k \in e -> TypicalField.education
         [] k \in x -> TypicalField.experience
         [] k \in l -> TypicalField.languages
         [] OTHER -> Typical[k]] :
    p \in KeyChoices("personal"), e \in KeyChoices("education"),
    x \in KeyChoices("experience"), l \in KeyChoices("languages"),
    o \in SUBSET {"profile", "skills", "certifications"} }

\* a certification record without its issuer
BrokenBodies ==
  {[certifications |-> PyList(<<Without(CERT, {"issuer"})>>)]}

\* the bundles _rand_style() may return, one for each template
DrawnTemplates == {[BaseStyle EXCEPT !.template = t] : t \in 0..4}

---------------------------------------------------------------------------
(* cv_json_to_docx called by concurrent threads.  A thread reads the       *)
(* global name _add_heading when a heading is written, so one step of a    *)
(* thread is one section writer; the statements of lines 277, 282 and 285  *)
(* that read and bind the global are steps of their own.                   *)

\* what the threads are called with
ThreadInputs ==
  [payload : {Sections({"profile", "skills"}),
              Sections({"education_history", "language_qualifications"}),
              Only("language_qualifications", PyList(<<Without(LANG, {"level"})>>))},
   template : {{t} : t \in 0..4}, drawn : {BaseStyle}, body_pt : {12}]

\* the keys of keys that have a writer
Present(keys, data) == SelectSeq(keys, LAMBDA k : InSeq(k, _section_writers(data)))

Into(keys, container, how) ==
  [i \in 1..Len(keys) |-> [k |-> keys[i], into |-> container, how |-> how]]

\* the writer calls of lines 254-301, in the order the template makes them
Plan(data, st, order) ==
  LET w == _section_writers(data)
  IN  CASE st.template = 0 -> Into([i \in 1..Len(w) |-> w[order[i]]], "doc", "writer")
        [] st.template = 1 ->
             Into(Present(<<"work", "edu">>, data), "doc", "timeline")
             \o Into(Present(<<"skills", "langs", "certs">>, data), "doc", "writer")
        [] st.template = 2 ->
             Into(Present(<<"edu", "work", "skills", "langs", "certs">>, data), "doc", "writer")
        [] st.template = 3 ->
             Into(Present(<<"skills", "langs", "certs">>, data), "left", "writer")
             \o Into(Present(<<"work", "edu">>, data), "right", "writer")
        [] OTHER ->
             Into(Present(<<"work", "skills", "edu", "langs", "certs">>, data), "doc", "writer")

\* the bundle the writers see: template 4 sets sty['border'] first
WriterStyle(st) == IF st.template = 4 THEN [st EXCEPT !.border = "none"] ELSE st

\* one call of the plan, the global being bound to g closures
RunStep(step, g, container, data, st) ==
  IF step.how = "writer" THEN CallWriter(step.k, g, container, data, WriterStyle(st))
  ELSE IF step.k = "work"
  THEN _write_timeline(g, [container EXCEPT !.by = "work"], <<"W", "o", "r", "k", " ", "H", "i", "s", "t", "o", "r", "y">>,
                       data.employment_history, st, "start_date", "end_date", "_tl_work")
  ELSE _write_timeline(g, [container EXCEPT !.by = "edu"], <<"E", "d", "u", "c", "a", "t", "i", "o", "n">>,
                       data.education_history, st, "start_date", "end_date", "_tl_edu")

\* the document as it is when the body is written
Composed(f) ==
  IF f.sty.template = 3 THEN SidebarTable(f.doc, f.left, f.right) ELSE f.doc

\* lines 217-252: the style, the header and the Profile section
Begin(t) ==
  /\ threads[t].at = "start"
  /\ \E x \in ThreadInputs :
       \E order \in IF Styled(x.drawn, x.template).template = 0
                    THEN Permutations(1..Len(_section_writers(x.payload)))
                    ELSE {<<>>} :
         \E st \in {Styled(x.drawn, x.template)} :
           threads' = [threads EXCEPT ![t] =
             [at |-> IF st.template = 2 THEN "277" ELSE "body",
              payload |-> x.payload, template |-> x.template, drawn |-> x.drawn,
              rand |-> [body_pt |-> x.body_pt, order |-> order],
              sty |-> st,
              doc |-> Profile(globals_add_heading,
                              Header(Document(st.font, x.body_pt), x.payload, st),
                              x.payload, st),
              left |-> NewCell, right |-> NewCell,
              todo |-> Plan(x.payload, st, order),
              original_add_heading |-> 0, old |-> 0, ret |-> <<>>]]
  /\ UNCHANGED <<pc, op, exVars, cvVars, globals_add_heading, request>>

\* line 277: original_add_heading = _add_heading
Capture(t) ==
  /\ threads[t].at = "277"
  /\ threads' = [threads EXCEPT ![t].original_add_heading = globals_add_heading,
                                ![t].at = "282"]
  /\ UNCHANGED <<pc, op, exVars, cvVars, globals_add_heading, request>>

\* line 282, the right-hand side: _add_heading is read for old
ReadOld(t) ==
  /\ threads[t].at = "282"
  /\ threads' = [threads EXCEPT ![t].old = globals_add_heading, ![t].at = "282 store"]
  /\ UNCHANGED <<pc, op, exVars, cvVars, globals_add_heading, request>>

\* line 282, the stores: the global is bound to this call's add_shaded
Patch(t) ==
  /\ threads[t].at = "282 store"
  /\ globals_add_heading' = threads[t].original_add_heading + 1
  /\ threads' = [threads EXCEPT ![t].at = "body"]
  /\ UNCHANGED <<pc, op, exVars, cvVars, request>>

\* the next writer of the plan runs; an exception leaves the call at once
Step(t) ==
  /\ threads[t].at = "body"
  /\ threads[t].todo # <<>>
  /\ \E f \in {threads[t]} :
       \E c \in {RunStep(Head(f.todo), globals_add_heading, f[Head(f.todo).into],
                         f.payload, f.sty)} :
         threads' = [threads EXCEPT ![t] =
           IF c.error # ""
           THEN [f EXCEPT !.at = "raised", !.doc = <<>>,
                          !.ret = [raised |-> TRUE, error |-> c.error, bytes |-> <<>>]]
           ELSE [f EXCEPT ![Head(f.todo).into] = c, !.todo = Tail(@)]]
  /\ UNCHANGED <<pc, op, exVars, cvVars, globals_add_heading, request>>

\* line 285: globals()['_add_heading'] = old
Restore(t) ==
  /\ threads[t].at = "body"
  /\ threads[t].todo = <<>>
  /\ threads[t].sty.template = 2
  /\ globals_add_heading' = threads[t].old
  /\ threads' = [threads EXCEPT ![t].at = "export"]
  /\ UNCHANGED <<pc, op, exVars, cvVars, request>>

\* lines 304-308
Finish(t) ==
  /\ \/ threads[t].at = "export"
     \/ threads[t].at = "body" /\ threads[t].todo = <<>> /\ threads[t].sty.template # 2
  /\ \E r \in {Export(0, Composed(threads[t]), threads[t].sty)} :
       threads' = [threads EXCEPT ![t].at = "done", ![t].doc = r.doc, ![t].ret = r.ret]
  /\ UNCHANGED <<pc, op, exVars, cvVars, globals_add_heading, request>>

ThreadStep(t) ==
  Begin(t) \/ Capture(t) \/ ReadOld(t) \/ Patch(t) \/ Step(t) \/ Restore(t) \/ Finish(t)

---------------------------------------------------------------------------
(* The requests.                                                           *)

\* POST /generate-cv: the body is validated, dumped and rendered with no
\* template argument; an exception of the renderer is answered with 500
GenerateCV ==
  /\ pc = "idle"
  /\ \E body \in Bodies \cup BrokenBodies, d \in DrawnTemplates :
       \E model \in {CVPayload(body)} :
         /\ request' = body
         /\ IF ~model.ok
            THEN /\ ret' = Unprocessable
                 /\ UNCHANGED <<payload, template, drawn, rand, sty, doc,
                                globals_add_heading>>
            ELSE \E order \in IF d.template = 0
                              THEN Permutations(1..Len(_section_writers(model_dump(model))))
                              ELSE {<<>>} :
                   \E r \in {cv_json_to_docx(model_dump(model), {}, d, 12, order,
                                             globals_add_heading)} :
                     /\ r.globals_ <= MaxShade
                     /\ payload' = model_dump(model)
                     /\ template' = {}
                     /\ drawn' = d
                     /\ rand' = [body_pt |-> 12, order |-> order]
                     /\ sty' = r.sty
                     /\ doc' = r.doc
                     /\ ret' = Response(model, r)
                     /\ globals_add_heading' = r.globals_
  /\ pc' = "done"
  /\ op' = "generate_cv"
  /\ UNCHANGED <<text, label, form, span, threads>>

\* the response is sent
ApiReturn ==
  /\ pc = "done"
  /\ op = "generate_cv"
  /\ pc' = "idle"
  /\ op' = "none"
  /\ request' = <<>>
  /\ ret' = <<>>
  /\ payload' = <<>>
  /\ template' = {}
  /\ drawn' = <<>>
  /\ rand' = <<>>
  /\ sty' = <<>>
  /\ doc' = <<>>
  /\ UNCHANGED <<text, label, form, span, globals_add_heading, threads>>

vars == <<pc, op, text, label, form, ret, span, payload, template, drawn, rand, sty,
          doc, globals_add_heading, request, threads>>

NextExtract == FindValue \/ ExtractEmployment \/ ExtractInfo \/ ExtractReturn

SpecExtract == Init /\ [][NextExtract]_vars

NextRender == FmtDate \/ RenderCV \/ RenderReturn

SpecRender == Init /\ [][NextRender]_vars

NextStyle == RenderAnyStyle \/ RenderReturn

SpecStyle == Init /\ [][NextStyle]_vars

NextApi == GenerateCV \/ ApiReturn

SpecApi == Init /\ [][NextApi]_vars

NextThreads == \E t \in Threads : ThreadStep(t)

SpecThreads == Init /\ [][NextThreads]_vars

Next == NextExtract \/ NextRender \/ NextApi \/ NextThreads

Spec == Init /\ [][Next]_vars

---------------------------------------------------------------------------
(* Claims about the extractor, checked under SpecExtract.                  *)

Returned(f) == pc = "done" /\ op = f

\* C1: the record _extract_info builds has all 19 top-level keys and its
\* permanent_address all 4 keys; a field whose label occurs nowhere in the
\* text (in any letter case) is the empty string, and employment is the empty
\* list when the text holds no employment rows.
C1_RecordComplete ==
  Returned("_extract_info") =>
    /\ DOMAIN ret = InfoKeys
    /\ Cardinality(DOMAIN ret) = 19
    /\ DOMAIN ret.permanent_address = AddressKeys
    /\ \A k \in ScalarKeys :
         Occurrences(text, LABELS[k]) = {} => ret[k] = EmptyStr
    /\ \A k \in AddressKeys :
         Occurrences(text, LABELS[k]) = {} => ret.permanent_address[k] = EmptyStr
    /\ form.emp # "one" => ret.employment = <<>>

\* a text with none of the labels gave a record of empty fields
C1_Witness ==
  /\ Returned("_extract_info")
  /\ form.fields = {} /\ form.emp = "none"
  /\ text # <<>>
  /\ \A k \in ScalarKeys : ret[k] = EmptyStr

\* the label occurs in line ln at position p, directly followed by ":" and,
\* on the same line, a value with a visible character
InlineAt(ln, lbl, p) ==
  /\ p + Len(lbl) <= Len(ln)
  /\ ln[p + Len(lbl)] = ":"
  /\ Strip(SubSeq(ln, p + Len(lbl) + 1, Len(ln))) # <<>>

InlineValue(ln, lbl, p) == Strip(SubSeq(ln, p + Len(lbl) + 1, Len(ln)))

\* the first line of `lines` in which the label occurs, in any letter case
\* (0 if it occurs in none)
FirstLineWith(lines, lbl) ==
  LET hits == {k \in 1..Len(lines) : Occurrences(lines[k], lbl) # {}}
  IN  IF hits = {} THEN 0 ELSE SetMin(hits)

\* C2 as stated: wherever the label appears verbatim in the text followed by
\* ": value" on the same line, _find_value returns that value trimmed.
C2_AnyOccurrence ==
  Returned("_find_value") =>
    \A k \in 1..Len(form) : \A p \in 1..Len(form[k]) :
      (OccursAt(form[k], label, p) /\ InlineAt(form[k], label, p))
        => ret = InlineValue(form[k], label, p)

\* C2, amended: when the first occurrence of the label in the text (in any
\* letter case) is followed by ": value" on the same line, _find_value
\* returns that value with leading and trailing whitespace removed.
C2_FirstOccurrence ==
  Returned("_find_value") =>
    LET k == FirstLineWith(form, label)
    IN  k # 0 =>
          LET p == SetMin(Occurrences(form[k], label))
          IN  InlineAt(form[k], label, p) => ret = InlineValue(form[k], label, p)

\* "TITLE: Ms " in the second line of the text, found for the label "Title"
C2_Witness ==
  /\ Returned("_find_value")
  /\ Len(form) >= 2
  /\ FirstLineWith(form, label) = 2
  /\ InlineAt(form[2], label, SetMin(Occurrences(form[2], label)))
  /\ form[2][Len(form[2])] = " "
  /\ ret = <<"M", "s">>

\* line k holds the label and nothing else
AloneOn(lines, lbl, k) == LowerStr(Strip(lines[k])) = LowerStr(lbl)

\* the first line after line k that is not blank (0 if there is none)
NextNonBlank(lines, k) ==
  LET hits == {j \in (k + 1)..Len(lines) : Strip(lines[j]) # <<>>}
  IN  IF hits = {} THEN 0 ELSE SetMin(hits)

\* C3 as stated: wherever the label appears alone on its line and a value
\* appears on the next non-empty line, possibly after blank lines,
\* _find_value returns that line trimmed.
C3_NextNonEmptyLine ==
  Returned("_find_value") =>
    \A k \in 1..Len(form) :
      (AloneOn(form, label, k) /\ NextNonBlank(form, k) # 0)
        => ret = Strip(form[NextNonBlank(form, k)])

\* C3, amended: when no occurrence of the label is followed by a colon
\* (pattern A matches nowhere), the first occurrence of the label is alone on
\* its line and the line directly after it is not empty, _find_value returns
\* that directly following line trimmed.
C3_FollowingLine ==
  Returned("_find_value") =>
    LET k == FirstLineWith(form, label)
    IN  ( /\ k # 0 /\ k < Len(form)
          /\ AloneOn(form, label, k)
          /\ form[k + 1] # <<>>
          /\ ~SearchInline(text, label).ok )
        => ret = Strip(form[k + 1])

\* "Title" alone on a line, " Dr " on the line after it
C3_Witness ==
  /\ Returned("_find_value")
  /\ Len(form) = 3
  /\ FirstLineWith(form, label) = 2
  /\ AloneOn(form, label, 2)
  /\ ~SearchInline(text, label).ok
  /\ form[3] = <<" ", "D", "r", " ">>
  /\ ret = <<"D", "r">>

\* The data region of an employment table, from how the table was laid out:
\* the data lines before the "Employment List" line, after the header lines
\* that are data because no "Contact Name" line ends them.
EmpRegion(f) ==
  (IF f.header = "partial" THEN <<JobDescription, StartDate, EndDate>> ELSE <<>>)
  \o SubSeq(EmpData(f), 1, IF f.list < 0 THEN f.n ELSE f.list)

SaysNoRecords(line) == LowerStr(line) = LowerStr(NO_RECORDS_FOUND)

\* C4 as stated: a text with "Employer" and, on a later line, "No Records
\* Found" in any letter case gives an empty sequence, with or without the
\* "Contact Name" header line.
C4_AnyLaterLine ==
  ( /\ Returned("_extract_employment")
    /\ form.marker = "exact"
    /\ \E i \in 1..Len(EmpRegion(form)) : SaysNoRecords(EmpRegion(form)[i]) )
  => ret = <<>>

\* C4, amended: a text with "Employer" whose first data line (the first
\* non-empty line after the "Contact Name" line, or after "Employer" when
\* there is no such line) is "No Records Found" in any letter case gives
\* an empty sequence.
C4_FirstDataLine ==
  ( /\ Returned("_extract_employment")
    /\ form.marker = "exact"
    /\ EmpRegion(form) # <<>>
    /\ SaysNoRecords(EmpRegion(form)[1]) )
  => ret = <<>>

\* "NO RECORDS FOUND" first, five more lines after it, no header line
C4_Witness ==
  /\ Returned("_extract_employment")
  /\ form.marker = "exact" /\ form.header = "none"
  /\ form.nrf = 1 /\ form.upper /\ form.n >= 6 /\ form.list < 0
  /\ ret = <<>>

\* C5: n data lines after the "Contact Name" header, the first not "No
\* Records Found", give floor(n/5) records in input order; record k holds
\* lines 5k..5k+4 as employer, job_description, start_date, end_date,
\* contact_name, and the n mod 5 trailing lines are in no record.
C5_ChunksOfFive ==
  Returned("_extract_employment") =>
    LET D == EmpRegion(form)
        n == Len(D)
    IN  ( /\ form.marker = "exact" /\ form.header = "full"
          /\ (n > 0 => ~SaysNoRecords(D[1])) )
        => /\ Len(ret) = n \div 5
           /\ \A k \in 1..Len(ret) :
                ret[k] = [employer        |-> D[5 * (k - 1) + 1],
                          job_description |-> D[5 * (k - 1) + 2],
                          start_date      |-> D[5 * (k - 1) + 3],
                          end_date        |-> D[5 * (k - 1) + 4],
                          contact_name    |-> D[5 * (k - 1) + 5]]
           /\ \A i \in (5 * (n \div 5) + 1)..n : \A k \in 1..Len(ret) :
                D[i] \notin {ret[k][x] : x \in DOMAIN ret[k]}

\* 12 data lines gave 2 records and dropped the last 2 lines
C5_Witness ==
  /\ Returned("_extract_employment")
  /\ form.marker = "exact" /\ form.header = "full"
  /\ Len(EmpRegion(form)) = 12 /\ form.nrf = 0
  /\ Len(ret) = 2
  /\ ret[2].contact_name = <<"j">>

---------------------------------------------------------------------------
(* Claims about the renderer, checked under SpecRender and SpecStyle.      *)

\* cv_json_to_docx has returned the bytes of a document
Rendered == pc = "done" /\ op = "cv_json_to_docx" /\ ~ret.raised

RECURSIVE Elements(_)
\* the paragraphs and tables of a body, those inside table cells included
Elements(body) ==
  UNION { {body[i]} \cup
          (IF body[i].kind = "table"
           THEN UNION { Elements(body[i].rows[r][c].body) :
                          r \in 1..Len(body[i].rows), c \in 1..2 }
           ELSE {}) : i \in 1..Len(body) }

\* a section heading: the paragraphs _add_heading writes are kept with the next
IsHeading(e) == e.kind = "paragraph" /\ e.keep_with_next

SectionTitle ==
  [profile |-> <<"P", "r", "o", "f", "i", "l", "e">>, work |-> <<"W", "o", "r", "k", " ", "H", "i", "s", "t", "o", "r", "y">>, edu |-> <<"E", "d", "u", "c", "a", "t", "i", "o", "n">>,
   skills |-> <<"S", "k", "i", "l", "l", "s">>, langs |-> <<"L", "a", "n", "g", "u", "a", "g", "e", "s">>, certs |-> <<"C", "e", "r", "t", "i", "f", "i", "c", "a", "t", "i", "o", "n", "s">>]

\* the payload key of section k is absent or empty
Missing(k) ==
  IF k = "profile" THEN Falsy(Get(payload, "profile", None))
  ELSE ~HasSection(payload, SECTION_KEY[k])

\* C6: in every template a section whose payload key is absent or empty leaves no
\* heading and no body in the document, and a payload with no optional section
\* gives a document that holds the header block (the name and, if any, the
\* contact line) and nothing else.
C6_AbsentSectionsLeaveNothing ==
  Rendered =>
    /\ \A k \in DOMAIN SectionTitle :
         Missing(k) =>
           \A e \in Elements(doc.body) :
             /\ e.by # k
             /\ IsHeading(e) => LowerStr(ParaText(e)) # LowerStr(SectionTitle[k])
    /\ (\A k \in DOMAIN SectionTitle : Missing(k)) =>
         /\ Len(doc.body) \in 1..2
         /\ \A i \in 1..Len(doc.body) :
              doc.body[i].kind = "paragraph" /\ doc.body[i].by = "header"

\* a section of a list: every optional section is a list, a language record
\* holds language and level, a certification record name, issuer and date_awarded
DocumentedShape(p) ==
  \A i \in 1..Len(WRITERS) :
    LET key == SECTION_KEY[WRITERS[i]]
    IN  key \in DOMAIN p =>
          /\ p[key].type = "list"
          /\ key = "language_qualifications" =>
               \A j \in 1..Len(p[key].items) :
                 {"language", "level"} \subseteq DOMAIN p[key].items[j]
          /\ key = "certifications" =>
               \A j \in 1..Len(p[key].items) :
                 {"name", "issuer", "date_awarded"} \subseteq DOMAIN p[key].items[j]

\* C7: for each explicitly requested template 0..4, every style draw and every
\* payload of the documented shape, cv_json_to_docx does not raise and returns a
\* non-empty byte sequence that starts with the signature of the zip container.
C7_EveryTemplateRenders ==
  ( /\ pc = "done" /\ op = "cv_json_to_docx"
    /\ template # {}
    /\ DocumentedShape(payload) )
  => /\ ~ret.raised
     /\ Len(ret.bytes) >= 2
     /\ SubSeq(ret.bytes, 1, 2) = <<"P", "K">>

\* every section present, template=3 requested, and the bytes returned
C7_Witness ==
  /\ Rendered
  /\ template = {3}
  /\ payload = Typical
  /\ Len(doc.body) = 5

OtherAxes ==
  {"font", "colour", "bullet", "divider", "headings_upper", "name_align",
   "show_dividers", "border"}

Formatted == pc = "done" /\ op = "_fmt_date"

AllDigits(s) == \A i \in 1..Len(s) : s[i] \in DigitSet

\* the months written with two digits, and those a single digit can write
TwoDigitMonths ==
  <<<<"0", "1">>, <<"0", "2">>, <<"0", "3">>, <<"0", "4">>, <<"0", "5">>, <<"0", "6">>,
    <<"0", "7">>, <<"0", "8">>, <<"0", "9">>, <<"1", "0">>, <<"1", "1">>, <<"1", "2">>>>

OneDigitMonths ==
  <<<<"1">>, <<"2">>, <<"3">>, <<"4">>, <<"5">>, <<"6">>, <<"7">>, <<"8">>, <<"9">>>>

\* s is four digits, '-', and one of months
YearMonth(s, months) ==
  /\ Len(s) >= 6
  /\ AllDigits(SubSeq(s, 1, 4))
  /\ s[5] = "-"
  /\ InSeq(SubSeq(s, 6, Len(s)), months)

\* the abbreviated name of the month s[6:] writes
MonthName(s) ==
  LET m == SubSeq(s, 6, Len(s))
  IN  IF Len(m) = 2 THEN MonthAbbr[CHOOSE i \in 1..12 : TwoDigitMonths[i] = m]
      ELSE MonthAbbr[CHOOSE i \in 1..9 : OneDigitMonths[i] = m]

\* the year s[:4] without its leading zeros
YearName(s) == SubSeq(s, SkipWhile(s, 1, {"0"}), 4)

StructurallyUnusable(p) ==
  \E i \in 1..Len(WRITERS) :
    /\ SECTION_KEY[WRITERS[i]] \in DOMAIN p
    /\ p[SECTION_KEY[WRITERS[i]]].type # "list"

\* C10: cv_json_to_docx raises only for a structurally unusable payload; a language
\* or certification record that lacks a key does not make it raise.
C10_ErrorsOnlyWhenUnusable ==
  (pc = "done" /\ op = "cv_json_to_docx" /\ ret.raised) => StructurallyUnusable(payload)

---------------------------------------------------------------------------
(* Claims about concurrent calls, checked under SpecThreads.               *)

\* what the call of frame f produces when no other call is in progress and the
\* global _add_heading is the function of line 61
Alone(f) ==
  cv_json_to_docx(f.payload, f.template, f.drawn, f.rand.body_pt, f.rand.order, 0)

(* C11: two cv_json_to_docx calls whose steps interleave each produce the   *)
(* document they would produce alone with the same style draw; a render    *)
(* with template 0, 1, 3 or 4 gets no shaded heading from a template-2     *)
(* render in progress.                                                      *)
C11_ConcurrentCallsIndependent ==
  \A t \in Threads :
    threads[t].at = "done" => threads[t].doc = Alone(threads[t]).doc

---------------------------------------------------------------------------
(* Claims about the route /generate-cv, checked under SpecApi.             *)

Responded == pc = "done" /\ op = "generate_cv"

\* the request carries field f under its alias or under its field name
Supplied(f) == FIELD_ALIAS[f] \in DOMAIN request \/ f \in DOMAIN request

Supplied_value(f) ==
  IF FIELD_ALIAS[f] \in DOMAIN request THEN request[FIELD_ALIAS[f]] ELSE request[f]

\* the document has the heading of section k
HasHeading(k) ==
  \E e \in Elements(doc.body) :
    IsHeading(e) /\ LowerStr(ParaText(e)) = LowerStr(SectionTitle[k])

\* the first paragraph of the document is the supplied first and last name
ShowsName ==
  ParaText(doc.body[1])
    = Supplied_value("personal").first_name \o <<" ">> \o Supplied_value("personal").last_name

(* C12: a /generate-cv request that supplies personal_details, employment_  *)
(* history, education_history or language_qualifications under the alias   *)
(* or the field name is answered with a document that shows the supplied   *)
(* name in its header and has the Work History, Education and Languages    *)
(* sections; a request that carries 'profile' is accepted and its Profile  *)
(* section is rendered.                                                     *)
C12_RequestReachesRenderer ==
  (Responded /\ request \notin BrokenBodies) =>
    /\ ret.status = 200
    /\ Supplied("personal") => ShowsName
    /\ Supplied("experience") => HasHeading("work")
    /\ Supplied("education") => HasHeading("edu")
    /\ Supplied("languages") => HasHeading("langs")
    /\ "profile" \in DOMAIN request => HasHeading("profile")

---------------------------------------------------------------------------
(* Claims about the renderer, checked under SpecRender.                    *)

(* C13: after every cv_json_to_docx call, returned or raised, the module    *)
(* global _add_heading is the unshaded writer of line 61, so the headings  *)
(* of a later render are not affected by earlier calls.                    *)
C13_HeadingWriterRestored ==
  (pc = "done" /\ op = "cv_json_to_docx") => globals_add_heading = 0

---------------------------------------------------------------------------
(* Further claims about the extractor, checked under SpecExtract.          *)

\* where the match of pattern A starts
InlineMatchStart(s, lbl) ==
  SetMin({i \in Occurrences(s, lbl) : MatchInlineAt(s, lbl, i).ok})

(* C14: whenever _find_value returns through pattern A, the value it        *)
(* returns is text of the line of the matched label occurrence, after the  *)
(* label; pattern A captures nothing from a following line.                *)
C14_InlineValueOnLabelLine ==
  (Returned("_find_value") /\ SearchInline(text, label).ok) =>
    LET i == InlineMatchStart(text, label)
        le == LineEnd(text, i)
    IN  \E a \in (i + Len(label))..(le + 1) : ret = Strip(SubSeq(text, a, le))

RECURSIVE RecordLines(_)
\* the lines the records of an employment list were made of, in order
RecordLines(jobs) ==
  IF jobs = <<>> THEN <<>>
  ELSE << Head(jobs).employer, Head(jobs).job_description, Head(jobs).start_date,
          Head(jobs).end_date, Head(jobs).contact_name >> \o RecordLines(Tail(jobs))

\* the lines of the text that follow the "Employment List" line
AfterList(f) == IF f.list < 0 THEN <<>> ELSE SubSeq(EmpData(f), f.list + 1, f.n)

(* C15: _extract_employment returns an empty sequence when the text has no  *)
(* 'Employer' in that letter case; otherwise its records are made of the   *)
(* non-empty trimmed lines after the first 'Employer' and before the first *)
(* 'Employment List' (no later line is in a record), taken after the       *)
(* first 'Contact Name' line, or from the whole block, header lines        *)
(* included, when there is no such line.                                   *)
C15_EmploymentBlock ==
  Returned("_extract_employment") =>
    /\ form.marker # "exact" => ret = <<>>
    /\ form.marker = "exact" =>
         LET D == EmpRegion(form)
         IN  /\ RecordLines(ret) =
                  IF D # <<>> /\ SaysNoRecords(D[1]) THEN <<>>
                  ELSE SubSeq(D, 1, 5 * (Len(D) \div 5))
             /\ \A i \in 1..Len(AfterList(form)) :
                  ~InSeq(AfterList(form)[i], RecordLines(ret))

\* no "Contact Name" line: the three header lines and two data lines make the
\* one record, and the lines after "Employment List" are left out
C15_Witness ==
  /\ Returned("_extract_employment")
  /\ form.marker = "exact" /\ form.header = "partial"
  /\ form.list = 2 /\ form.n > 2
  /\ Len(ret) = 1
  /\ ret[1].employer = JobDescription
  /\ ret[1].contact_name = EmpData(form)[2]

---------------------------------------------------------------------------
(* Further claims about the renderer, checked under SpecRender.            *)

\* the sidebar table of template 3, if the document has one
Layout == SelectSeq(doc.body, LAMBDA e : e.kind = "table" /\ e.by = "layout")

\* what was written into the document body and into the regions of the sidebar,
\* in the order of writing within each
Written ==
  doc.body \o (IF Layout = <<>> THEN <<>>
               ELSE Layout[1].rows[1][1].body \o Layout[1].rows[1][2].body)

\* what the writer of section k wrote
SectionBody(k) == SelectSeq(Written, LAMBDA e : e.by = k)

StartsWith(s, prefix) == Len(s) >= Len(prefix) /\ SubSeq(s, 1, Len(prefix)) = prefix

EndsWith(s, suffix) ==
  Len(s) >= Len(suffix) /\ SubSeq(s, Len(s) - Len(suffix) + 1, Len(s)) = suffix

\* the paragraph that opens an entry of the generic work or education writer
IsEntry(e) ==
  /\ e.kind = "paragraph" /\ ~IsHeading(e)
  /\ e.runs # <<>> => e.runs[1] # BulletRun(sty)
  /\ ~StartsWith(ParaText(e), <<"R", "e", "s", "u", "l", "t", ":", " ">>)

\* the text of the italic run of a paragraph, <<>> when it has none
ItalicText(p) ==
  LET its == SelectSeq(p.runs, LAMBDA r : r.italic)
  IN  IF its = <<>> THEN <<>> ELSE its[1].text

\* the date range shown for each entry of section k ("work" or "edu"): the first
\* cell of a row of the timeline table, or the italic run of the entry's paragraph
DateRanges(k) ==
  LET sb == SectionBody(k)
      tables == SelectSeq(sb, LAMBDA e : e.kind = "table")
      entries == SelectSeq(sb, IsEntry)
  IN  IF tables # <<>>
      THEN [j \in 1..Len(tables[1].rows) |-> ParaText(tables[1].rows[j][1].body[1])]
      ELSE [j \in 1..Len(entries) |-> Strip(ItalicText(entries[j]))]

\* the entries of section k in the payload
Entries(k) == payload[SECTION_KEY[k]].items

\* section k of the payload is a list of records and was rendered
EntriesRendered(k) ==
  /\ Rendered
  /\ HasSection(payload, SECTION_KEY[k])
  /\ Len(DateRanges(k)) = Len(Entries(k))

\* C16 as stated: every work or education entry whose end date is missing shows
\* a date range that ends with 'Present', whatever its start date is.
C16_MissingEndIsPresent ==
  \A k \in {"work", "edu"} :
    EntriesRendered(k) =>
      \A j \in 1..Len(Entries(k)) :
        Falsy(Get(Entries(k)[j], "end_date", None))
          => EndsWith(DateRanges(k)[j], PRESENT)

(* C16, amended: a work or education entry whose end date is missing and   *)
(* whose start date is not shows a date range that ends with 'Present';    *)
(* an entry with neither date shows no date range at all.                  *)
C16_OpenRangeIsPresent ==
  \A k \in {"work", "edu"} :
    /\ Rendered /\ HasSection(payload, SECTION_KEY[k])
         => Len(DateRanges(k)) = Len(Entries(k))
    /\ EntriesRendered(k) =>
         \A j \in 1..Len(Entries(k)) :
           Falsy(Get(Entries(k)[j], "end_date", None)) =>
             IF Falsy(Get(Entries(k)[j], "start_date", None))
             THEN DateRanges(k)[j] = <<>>
             ELSE /\ EndsWith(DateRanges(k)[j], <<" ", EnDash, " ">> \o PRESENT)
                  /\ Len(DateRanges(k)[j]) > Len(PRESENT) + 3

\* a job with a start date and None for its end date, in the timeline table
C16_Witness ==
  /\ EntriesRendered("work")
  /\ sty.template = 1
  /\ ~Falsy(Get(Entries("work")[1], "start_date", None))
  /\ Get(Entries("work")[1], "end_date", <<>>) = None
  /\ DateRanges("work")[1] = <<"J", "a", "n", " ", "1", "8", "4", "0", " ">> \o <<EnDash>> \o <<" ", "P", "r", "e", "s", "e", "n", "t">>

\* the writer of each thing written, in the order of writing
Stamps == [i \in 1..Len(Written) |-> Written[i].by]

RECURSIVE Collapse(_)
\* s with every run of equal neighbours made one
Collapse(s) ==
  IF Len(s) <= 1 THEN s
  ELSE IF s[1] = s[2] THEN Collapse(Tail(s))
  ELSE <<s[1]>> \o Collapse(Tail(s))

\* the body sections of the document in the order they were emitted, a section
\* once for each unbroken block of its output
SectionOrder == SelectSeq(Collapse(Stamps), LAMBDA k : k \in DOMAIN SECTION_KEY)

\* how many times section k was emitted
Times(k) == Cardinality({i \in DOMAIN SectionOrder : SectionOrder[i] = k})

\* the headings section k wrote
HeadingsOf(k) == SelectSeq(SectionBody(k), IsHeading)

\* every block of a body section is one run of its writer: it opens with the
\* heading of the section and has no other heading
WholeSections ==
  \A k \in DOMAIN SECTION_KEY :
    /\ Len(HeadingsOf(k)) = Times(k)
    /\ SectionBody(k) # <<>> =>
         /\ IsHeading(SectionBody(k)[1])
         /\ LowerStr(ParaText(SectionBody(k)[1])) = LowerStr(SectionTitle[k])

\* the name and contact block, then the profile, come before anything else
HeaderAndProfileFirst ==
  /\ Stamps # <<>> /\ Stamps[1] = "header"
  /\ \A i, j \in DOMAIN doc.body :
       /\ (doc.body[i].by = "header" /\ doc.body[j].by # "header") => i < j
       /\ (doc.body[i].by = "profile" /\ doc.body[j].by \notin {"header", "profile"}) => i < j
  /\ \A i \in DOMAIN Written :
       Written[i].by \in {"header", "profile"} => i \in DOMAIN doc.body

(* C17: in the document of every template each body section whose payload   *)
(* key holds data is emitted exactly once and each other body section not  *)
(* at all; in template 0 the sections emitted are a permutation of the     *)
(* applicable writers; the header and the profile come before every body   *)
(* section.                                                                *)
C17_EachSectionOnce ==
  Rendered =>
    /\ \A k \in DOMAIN SECTION_KEY :
         Times(k) = IF HasSection(payload, SECTION_KEY[k]) THEN 1 ELSE 0
    /\ WholeSections
    /\ sty.template = 0 =>
         /\ Len(SectionOrder) = Len(_section_writers(payload))
         /\ \A k \in DOMAIN SECTION_KEY :
              InSeq(k, SectionOrder) <=> InSeq(k, _section_writers(payload))
    /\ HeaderAndProfileFirst

\* template 0 with all five sections, in an order other than that of the writers
C17_Witness ==
  /\ Rendered
  /\ sty.template = 0
  /\ ~Missing("profile")
  /\ Len(SectionOrder) = 5
  /\ SectionOrder[1] = "certs"
  /\ SectionOrder # WRITERS

\* the order each fixed template gives the body sections
FixedOrder(t) ==
  CASE t = 1 -> <<"work", "edu", "skills", "langs", "certs">>
    [] t = 2 -> <<"edu", "work", "skills", "langs", "certs">>
    [] t = 4 -> <<"work", "skills", "edu", "langs", "certs">>

\* section k was written as a timeline: its heading and one table with a row
\* for each entry, the date range in the first cell of the row
IsTimeline(k) ==
  LET tables == SelectSeq(SectionBody(k), LAMBDA e : e.kind = "table")
  IN  /\ Len(tables) = 1
      /\ Len(tables[1].rows) = Len(Entries(k))
      /\ \A e \in Range(SectionBody(k)) : e.kind = "table" \/ IsHeading(e) \/ ~IsEntry(e)
      /\ \A j \in 1..Len(Entries(k)) :
           ParaText(tables[1].rows[j][1].body[1])
             = _tl_dates(Entries(k)[j], "start_date", "end_date")

(* C18: in templates 1, 2 and 4 the body sections come in the order fixed   *)
(* for the template, restricted to the sections present, whatever was      *)
(* drawn; in template 1 work and education are timeline tables.            *)
C18_FixedOrders ==
  (Rendered /\ sty.template \in {1, 2, 4}) =>
    /\ SectionOrder
         = SelectSeq(FixedOrder(sty.template),
                     LAMBDA k : HasSection(payload, SECTION_KEY[k]))
    /\ sty.template = 1 =>
         \A k \in {"work", "edu"} :
           HasSection(payload, SECTION_KEY[k]) => IsTimeline(k)

\* template 4, drawn, with every section present
C18_Witness ==
  /\ Rendered
  /\ template = {}
  /\ sty.template = 4
  /\ SectionOrder = <<"work", "skills", "edu", "langs", "certs">>

\* the body sections written into a region, in order, once for each unbroken
\* block (a new cell holds one empty paragraph, which no section wrote)
RegionOrder(body) ==
  SelectSeq(Collapse([i \in 1..Len(body) |-> body[i].by]),
            LAMBDA k : k \in DOMAIN SECTION_KEY)

\* the sections of keys that are present in the payload
PresentOf(keys) == SelectSeq(keys, LAMBDA k : HasSection(payload, SECTION_KEY[k]))

(* C19: in template 3 the present skills, languages and certifications      *)
(* sections are written into the left cell of the sidebar table in that     *)
(* order, the present work and education sections into the right cell in    *)
(* that order, and no body section is written anywhere else or twice.       *)
C19_SidebarRegions ==
  (Rendered /\ sty.template = 3) =>
    /\ Len(Layout) = 1
    /\ Len(Layout[1].rows) = 1
    /\ RegionOrder(Layout[1].rows[1][1].body) = PresentOf(<<"skills", "langs", "certs">>)
    /\ RegionOrder(Layout[1].rows[1][2].body) = PresentOf(<<"work", "edu">>)
    /\ \A e \in Range(doc.body) : e.by \notin DOMAIN SECTION_KEY
    /\ \A k \in DOMAIN SECTION_KEY : Len(HeadingsOf(k)) <= 1

\* every section present: three blocks on the left, two on the right
C19_Witness ==
  /\ Rendered
  /\ sty.template = 3
  /\ Len(RegionOrder(Layout[1].rows[1][1].body)) = 3
  /\ Len(RegionOrder(Layout[1].rows[1][2].body)) = 2
  /\ Layout[1].rows[1][1].shd = "F2F2F2"

\* heading e has a filled background in the accent colour and white text
IsShaded(e) ==
  /\ e.shd # <<>>
  /\ \A i \in DOMAIN e.shd : e.shd[i] = sty.colour
  /\ e.runs # <<>>
  /\ \A i \in DOMAIN e.runs : e.runs[i].colour = WHITE

\* C20 as stated: in template 2 every section heading of the document, the
\* Profile heading included, has a filled background in the accent colour and
\* white text.
C20_AllHeadingsShaded ==
  (Rendered /\ sty.template = 2) =>
    \A e \in Range(Written) : IsHeading(e) => IsShaded(e)

\* C21 as stated: in template 4 no section heading of the document, the Profile
\* heading included, has a bottom border, whatever border was drawn.
C21_NoHeadingBorders ==
  (Rendered /\ sty.template = 4) =>
    \A e \in Range(Written) : IsHeading(e) => e.border = ""

---------------------------------------------------------------------------
(* Claims about the length of the page, checked under SpecRender.          *)

\* the document of the call as it was before anything was written
Fresh == Document(sty.font, rand.body_pt)

\* the lines that fit on the page of a fresh document
Capacity == (Fresh.page_height - (Fresh.top_margin + Fresh.bottom_margin)) \div 168480

\* the estimate of the lines of the composed document
Estimate == _rough_line_count(doc, 80)

(* C22: the document a render returns was adjusted at most once: when the   *)
(* estimate is below the capacity of the page the body font is one point   *)
(* larger and the top and bottom margins are each one fixed increment      *)
(* larger than set at the start, and no more; when the estimate is at or   *)
(* above the capacity they are as set; the left and right margins are as   *)
(* set in both cases.                                                      *)
C22_OneShotAdjustment ==
  Rendered =>
    /\ doc.left_margin = Fresh.left_margin
    /\ doc.right_margin = Fresh.right_margin
    /\ doc.page_height = Fresh.page_height
    /\ IF Estimate < Capacity
       THEN /\ doc.size = rand.body_pt + 1
            /\ doc.top_margin = Fresh.top_margin + Cm(10)
            /\ doc.bottom_margin = Fresh.bottom_margin + Cm(10)
       ELSE /\ doc.size = rand.body_pt
            /\ doc.top_margin = Fresh.top_margin
            /\ doc.bottom_margin = Fresh.bottom_margin

\* a document whose estimate is exactly the capacity of the page is left alone
C22_Witness ==
  /\ Rendered
  /\ Estimate = Capacity
  /\ doc.size = rand.body_pt
  /\ doc.top_margin = Cm(12)

\* a short document is inflated once
C22_WitnessInflated ==
  /\ Rendered
  /\ Estimate < Capacity
  /\ doc.size = 14
  /\ doc.top_margin = Cm(22)

RECURSIVE Paragraphs(_), RowParagraphs(_)
\* the paragraphs of a body in reading order, those in the cells of its tables
\* included
Paragraphs(body) ==
  IF body = <<>> THEN <<>>
  ELSE (IF body[1].kind = "table" THEN RowParagraphs(body[1].rows) ELSE <<body[1]>>)
       \o Paragraphs(Tail(body))

\* the paragraphs of the cells of rows
RowParagraphs(rows) ==
  IF rows = <<>> THEN <<>>
  ELSE Paragraphs(rows[1][1].body) \o Paragraphs(rows[1][2].body)
       \o RowParagraphs(Tail(rows))

\* the characters of all the paragraphs of the document
AllChars ==
  LET ps == Paragraphs(doc.body)
  IN  SumLen([i \in 1..Len(ps) |-> ParaText(ps[i])], 1)

\* the lines of all the text of the document, at 80 characters a line
FullEstimate == IF Round(AllChars, 80) > 1 THEN Round(AllChars, 80) ELSE 1

\* C23 as stated: the estimate the normalizer used counts the characters of all
\* the paragraphs of the composed document, those inside tables included.
C23_EstimateCountsTables ==
  Rendered => Estimate = FullEstimate

---------------------------------------------------------------------------
(* Claims about the two-column grid, checked under SpecRender.             *)

\* the skills of the payload
SkillItems == payload.skills.items

\* the rows of the grid the skills writer added
SkillGrid == SelectSeq(SectionBody("skills"), LAMBDA e : e.kind = "table")[1].rows

\* the text of the cell of row r and column c of the grid
GridText(r, c) == ParaText(SkillGrid[r][c].body[1])

\* item j of the skills as a cell shows it
Bulleted(j) == <<sty.bullet, " ">> \o SkillItems[j]

\* a payload with a list of skills was rendered
SkillsRendered ==
  /\ Rendered
  /\ HasSection(payload, "skills")
  /\ Len(SelectSeq(SectionBody("skills"), LAMBDA e : e.kind = "table")) = 1

(* C24: the grid of n skills has ceil(n/2) rows of two cells; the first      *)
(* ceil(n/2) items fill the first column from the top, the others the      *)
(* second column in order; for odd n the last cell of the second column    *)
(* is empty; every item is in exactly one cell.                            *)
C24_BalancedGrid ==
  /\ (Rendered /\ HasSection(payload, "skills")) => SkillsRendered
  /\ SkillsRendered =>
       LET n == Len(SkillItems)
           half == Len(SkillGrid)
       IN  /\ 2 * half \in {n, n + 1}
           /\ \A r \in 1..half : \A c \in 1..2 : Len(SkillGrid[r][c].body) = 1
           /\ \A j \in 1..n :
                /\ j <= half => GridText(j, 1) = Bulleted(j)
                /\ j > half => GridText(j - half, 2) = Bulleted(j)
                /\ Cardinality({rc \in (1..half) \X (1..2) :
                                  GridText(rc[1], rc[2]) = Bulleted(j)}) = 1
           /\ n % 2 = 1 => GridText(half, 2) = <<>>

\* three skills: two rows, the third skill beside the first, the last cell empty
C24_Witness ==
  /\ SkillsRendered
  /\ Len(SkillItems) = 3
  /\ Len(SkillGrid) = 2
  /\ GridText(1, 2) = Bulleted(3)
  /\ GridText(2, 1) = Bulleted(2)
  /\ GridText(2, 2) = <<>>

---------------------------------------------------------------------------
(* A claim about labels that end other labels, checked under SpecExtract.  *)

\* the line of FieldLines that prints the term-time postcode, and its value
TermLine == LABELS.term_postcode \o <<":", " ", "X", "1">>

TermValue == <<"X", "1">>

\* line k of lines is the term-time line and no line before it starts with the
\* label "Postcode" (in any letter case)
TermLineFirst(lines, k) ==
  /\ k \in 1..Len(lines)
  /\ lines[k] = TermLine
  /\ \A j \in 1..(k - 1) : ~StartsWith(LowerStr(lines[j]), LowerStr(LABELS.postcode))

\* the label occurs somewhere in the line, in any letter case
Contains(line, lbl) ==
  \E p \in 1..Len(line) : OccursAt(LowerStr(line), LowerStr(lbl), p)

\* line k of lines is the term-time line and no line before it contains the
\* label "Postcode" (in any letter case)
TermLineShadows(lines, k) ==
  /\ k \in 1..Len(lines)
  /\ lines[k] = TermLine
  /\ \A j \in 1..(k - 1) : ~Contains(lines[j], LABELS.postcode)

\* the position of a field among the fields of a form
FieldIndex(k) == CHOOSE i \in 1..Len(FieldIds) : FieldIds[i] = k

\* C25 as stated: when the line 'Term time Postcode: X' comes before every line
\* that starts with 'Postcode', the value found for the label 'Postcode' is X.
C25_BeforePostcodeLines ==
  (Returned("_find_value") /\ label = LABELS.postcode) =>
    \A k \in 1..Len(form) : TermLineFirst(form, k) => ret = TermValue

(* C25, amended: a label is matched anywhere in a line, in any letter case,  *)
(* and the leftmost match is used: when the line 'Term time Postcode: X'     *)
(* is the first line of the text that contains 'postcode', _find_value       *)
(* returns X for the label 'Postcode', and the record of a form that prints  *)
(* its term-time postcode first has that value both as term_postcode and as  *)
(* permanent_address.postcode, whatever its own 'Postcode' line says.        *)
C25_SuffixLabelShadowed ==
  /\ (Returned("_find_value") /\ label = LABELS.postcode) =>
       \A k \in 1..Len(form) : TermLineShadows(form, k) => ret = TermValue
  /\ (Returned("_extract_info") /\ form.layout = "inline"
      /\ "term_postcode" \in form.fields) =>
       /\ ret.term_postcode = FieldValue(FieldIndex("term_postcode"))
       /\ ret.permanent_address.postcode = ret.term_postcode

\* a form that prints both postcodes: the record shows the term-time one twice
C25_Witness ==
  /\ Returned("_extract_info")
  /\ form.layout = "inline"
  /\ {"term_postcode", "postcode"} \subseteq form.fields
  /\ ret.permanent_address.postcode = FieldValue(FieldIndex("term_postcode"))
  /\ ret.permanent_address.postcode # FieldValue(FieldIndex("postcode"))

====
